---- MODULE Spec2Model ----
(***************************************************************************)
(* The scene-to-GPU-commands builder of pathfinder's renderer             *)
(* (renderer/src/builder.rs) as a state machine: one build() of a          *)
(* SceneBuilder over an immutable scene, with the tiling workers of        *)
(* Executor::build_vector interleaved at the granularity of their atomic   *)
(* operations, followed by the single-threaded occlusion pass and the      *)
(* replay of the culled display list to the listener.                      *)
(*                                                                         *)
(* Path and clip indices, Z-buffer indices and display-list ranges are     *)
(* 0-based as in the source; collections indexed by them are functions     *)
(* over 0..n-1.  Vec values that are only pushed to and iterated are       *)
(* sequences.                                                              *)
(***************************************************************************)
EXTENDS Integers, Sequences, FiniteSets, TLC

VARIABLES
    scene,                    \* the immutable Scene given to SceneBuilder::new
    pc,                       \* position of build(): new, tiling, culling, done, panicked
    stream,                   \* commands the listener has received, in order
    next_alpha_tile_index,    \* SceneBuilder.next_alpha_tile_index (AtomicUsize)
    next_mask_tile_index,     \* SceneBuilder.next_mask_tile_index (AtomicUsize)
    clip_workers,             \* per clip path: the Tiler / ObjectBuilder of its build_vector task
    draw_workers,             \* per draw path: the Tiler / ObjectBuilder of its build_vector task
    alpha_claims,             \* every index handed out by get_or_allocate_alpha_tile_index: [owner, tile, raw, index]
    earlier_claims,           \* number of indices claimed by paths tiled earlier in this build whose tile maps are not tracked
    cull                      \* the locals of cull_tiles (Pass B) while pc = "culling"

vars == << scene, pc, stream, next_alpha_tile_index, next_mask_tile_index,
           clip_workers, draw_workers, alpha_claims, earlier_claims, cull >>

(***************************************************************************)
(* Bounds of the model.                                                    *)
(***************************************************************************)
MaxItems == 3            \* display lists of at most this many items
MaxDrawPaths == 2        \* scenes of at most this many draw paths
MaxFills == 2            \* at most this many add_fill calls per path

(***************************************************************************)
(* Program constants.                                                      *)
(***************************************************************************)
TILE_WIDTH == 16
U16_MODULUS == 65536     \* `as u16` keeps the value modulo 2^16
SENTINEL == 65535        \* !0 as u16: "no alpha tile allocated"

\* Coordinates handed to add_fill are in units of 1/(256 * SubSteps) pixel, so
\* that a coordinate can fall strictly between two 4.8 fixed-point values.
SubSteps == 2

(***************************************************************************)
(* Blend modes (content/src/effects.rs).                                   *)
(***************************************************************************)
BlendModes ==
    { "Clear", "SrcOver", "DestOver", "DestOut", "SrcAtop", "Xor", "Lighter",
      "Lighten", "Darken", "Multiply", "Screen", "HardLight", "Overlay",
      "ColorDodge", "ColorBurn", "SoftLight", "Difference", "Exclusion",
      "Hue", "Saturation", "Color", "Luminosity" }

occludes_backdrop(blend_mode) ==
    CASE blend_mode \in {"SrcOver", "Clear"} -> TRUE
      [] blend_mode \in BlendModes \ {"SrcOver", "Clear"} -> FALSE

\* BlendModeProgram::from_blend_mode(mode).needs_readable_framebuffer(): the
\* partition of the blend modes the interface section of the design gives.
needs_readable_framebuffer_mode(blend_mode) ==
    blend_mode \in { "HardLight", "Overlay", "ColorDodge", "ColorBurn", "SoftLight",
                     "Difference", "Exclusion", "Hue", "Saturation", "Color",
                     "Luminosity", "Multiply", "Screen" }

(***************************************************************************)
(* Small helpers on sequences and integers.                                *)
(***************************************************************************)
Last(s) == s[Len(s)]
Front(s) == SubSeq(s, 1, Len(s) - 1)
Reverse(s) == [i \in 1..Len(s) |-> s[Len(s) + 1 - i]]
Min(a, b) == IF a < b THEN a ELSE b
Max(a, b) == IF a > b THEN a ELSE b

RECURSIVE SeqsUpTo(_, _)
SeqsUpTo(S, n) ==
    IF n = 0 THEN { << >> }
    ELSE LET shorter == SeqsUpTo(S, n - 1)
         IN  shorter \cup { Append(s, x) : s \in shorter, x \in S }

(***************************************************************************)
(* The scene: display list, draw paths, clip paths.                        *)
(***************************************************************************)
PushRenderTargetItem(id) ==
    [type |-> "PushRenderTarget", render_target |-> id, effects |-> "none",
     start_index |-> 0, end_index |-> 0]
PopRenderTargetItem ==
    [type |-> "PopRenderTarget", render_target |-> 0, effects |-> "none",
     start_index |-> 0, end_index |-> 0]
DrawRenderTargetItem(id, fx) ==
    [type |-> "DrawRenderTarget", render_target |-> id, effects |-> fx,
     start_index |-> 0, end_index |-> 0]
DrawPathsItem(s, e) ==
    [type |-> "DrawPaths", render_target |-> 0, effects |-> "none",
     start_index |-> s, end_index |-> e]

\* The tiles of the effective view box, rounded out to tile bounds, row-major.
ViewTileSeq == << <<0, 0>>, <<1, 0>> >>
ViewTiles == { ViewTileSeq[i] : i \in 1..Len(ViewTileSeq) }
\* A tile coordinate outside every tile map.
OutsideTile == <<2, 0>>

(***************************************************************************)
(* ObjectBuilder: the per-path accumulator (tile map, fills, built path).  *)
(***************************************************************************)
\* ObjectBuilder::new / BuiltPath::new: every tile of the map unallocated.
NewObjectBuilder(tile_rect, fill_rule) ==
    [ tiles       |-> [t \in tile_rect |-> [alpha_tile_index |-> SENTINEL, backdrop |-> 0]],
      fills       |-> << >>,
      mask_tiles  |-> << >>,
      alpha_tiles |-> << >>,
      solid_tiles |-> << >>,
      fill_rule   |-> fill_rule ]

\* DenseTileMap::coords_to_index is Some exactly for the coordinates of the map.
tile_coords_to_local_index_is_some(ob, tile_coords) == tile_coords \in DOMAIN ob.tiles

\* Faulty variant of Quantize that clamps to TILE_WIDTH * 256.
QuantizeClampedToTileWidth(v, tile) ==
    LET local == v - tile * TILE_WIDTH * 256 * SubSteps
        max   == TILE_WIDTH * 256
    IN  IF local <= 0 THEN 0
        ELSE IF local >= max * SubSteps THEN max
        ELSE local \div SubSteps

\* One lane of add_fill's conversion to 4.8 fixed point: translate to the tile's
\* upper left corner, scale by 256, clamp to [0, TILE_WIDTH * 256 - 1], to_i32.
\* v is in units of 1/(256 * SubSteps) pixel; tile is the tile's x or y coordinate.
Quantize(v, tile) ==
    LET local == v - tile * TILE_WIDTH * 256 * SubSteps
        max   == TILE_WIDTH * 256 - 1
    IN  IF local <= 0 THEN 0
        ELSE IF local >= max * SubSteps THEN max
        ELSE local \div SubSteps

\* Bitwise and / or of two non-negative integers.
RECURSIVE BitAnd(_, _)
BitAnd(a, b) ==
    IF a = 0 \/ b = 0 THEN 0
    ELSE (a % 2) * (b % 2) + 2 * BitAnd(a \div 2, b \div 2)

RECURSIVE BitOr(_, _)
BitOr(a, b) ==
    IF a = 0 THEN b
    ELSE IF b = 0 THEN a
    ELSE Max(a % 2, b % 2) + 2 * BitOr(a \div 2, b \div 2)

\* `v as u8`
AsU8(v) == v % 256

\* Faulty variant of PackPx without the yxwz swizzle: both nibbles from x.
PackPxUnswizzled(x, y) ==
    AsU8(BitOr(BitAnd(x, 15 * 256) \div 256, BitAnd(x, 15 * 256) \div 16))

\* One endpoint's lane of `(px >> 8) | (px >> 4).yxwz()` with px = segment & 0xf00,
\* `as u8`: x and y are the endpoint's lanes of the quantized segment.
PackPx(x, y) ==
    AsU8(BitOr(BitAnd(x, 15 * 256) \div 256, BitAnd(y, 15 * 256) \div 16))

\* ObjectBuilder::get_or_allocate_alpha_tile_index with the fetch_add on the shared
\* counter `next`: the index returned, the tile map and the counter afterwards.
get_or_allocate_alpha_tile_index(tiles, next, tile_coords) ==
    LET alpha_tile_index == tiles[tile_coords].alpha_tile_index
    IN  IF alpha_tile_index # SENTINEL
        THEN [ index |-> alpha_tile_index, tiles |-> tiles, next |-> next, claimed |-> FALSE ]
        ELSE LET fresh == next % U16_MODULUS
             IN  [ index   |-> fresh,
                   tiles   |-> [tiles EXCEPT ![tile_coords].alpha_tile_index = fresh],
                   next    |-> next + 1,
                   claimed |-> TRUE ]

\* Faulty variant of add_fill that allocates the tile's alpha slot before it culls
\* a degenerate fill.
add_fill_allocating_first(ob, next, segment, tile_coords) ==
    IF ~tile_coords_to_local_index_is_some(ob, tile_coords)
    THEN [ ob |-> ob, next |-> next, claimed |-> FALSE, pushed |-> FALSE ]
    ELSE LET from_x == Quantize(segment[1], tile_coords[1])
             from_y == Quantize(segment[2], tile_coords[2])
             to_x   == Quantize(segment[3], tile_coords[1])
             to_y   == Quantize(segment[4], tile_coords[2])
             got    == get_or_allocate_alpha_tile_index(ob.tiles, next, tile_coords)
             fill   == [ px    |-> [from |-> PackPx(from_x, from_y),
                                    to   |-> PackPx(to_x, to_y)],
                         subpx |-> [from_x |-> AsU8(from_x), from_y |-> AsU8(from_y),
                                    to_x   |-> AsU8(to_x),   to_y   |-> AsU8(to_y)],
                         alpha_tile_index |-> got.index,
                         tile_coords |-> tile_coords,
                         segment     |-> segment ]
         IN  IF from_x = to_x
             THEN [ ob |-> [ob EXCEPT !.tiles = got.tiles], next |-> got.next,
                    claimed |-> got.claimed, pushed |-> FALSE ]
             ELSE [ ob      |-> [ob EXCEPT !.tiles = got.tiles,
                                           !.fills = Append(ob.fills, fill)],
                    next    |-> got.next,
                    claimed |-> got.claimed,
                    pushed  |-> TRUE ]

\* ObjectBuilder::add_fill: the builder and the shared counter afterwards.
\* segment is <<from_x, from_y, to_x, to_y>>.
add_fill(ob, next, segment, tile_coords) ==
    IF ~tile_coords_to_local_index_is_some(ob, tile_coords)
    THEN [ ob |-> ob, next |-> next, claimed |-> FALSE, pushed |-> FALSE ]
    ELSE LET from_x == Quantize(segment[1], tile_coords[1])
             from_y == Quantize(segment[2], tile_coords[2])
             to_x   == Quantize(segment[3], tile_coords[1])
             to_y   == Quantize(segment[4], tile_coords[2])
         IN  IF from_x = to_x
             THEN [ ob |-> ob, next |-> next, claimed |-> FALSE, pushed |-> FALSE ]
             ELSE LET got  == get_or_allocate_alpha_tile_index(ob.tiles, next, tile_coords)
                      fill == [ px    |-> [from |-> PackPx(from_x, from_y),
                                           to   |-> PackPx(to_x, to_y)],
                                subpx |-> [from_x |-> AsU8(from_x), from_y |-> AsU8(from_y),
                                           to_x   |-> AsU8(to_x),   to_y   |-> AsU8(to_y)],
                                alpha_tile_index |-> got.index,
                                \* history fields, not FillBatchPrimitive data
                                tile_coords |-> tile_coords,
                                segment     |-> segment ]
                  IN  [ ob      |-> [ob EXCEPT !.tiles = got.tiles,
                                               !.fills = Append(ob.fills, fill)],
                        next    |-> got.next,
                        claimed |-> got.claimed,
                        pushed  |-> TRUE ]

\* SceneBuilder::allocate_mask_tile_index: fetch_add(1) as u16.
allocate_mask_tile_index(next) == next % U16_MODULUS

\* ObjectBuilder::push_mask_tile (the four vertices carry the same indices).
push_mask_tile(mask_tiles, fill_tile, mask_tile_index, object_index) ==
    Append(mask_tiles, [ mask_tile_index |-> mask_tile_index,
                         fill_tile_index |-> fill_tile.alpha_tile_index,
                         object_index    |-> object_index,
                         backdrop        |-> fill_tile.backdrop ])

\* ObjectBuilder::push_alpha_tile; AlphaTileVertex::tile_position() of the upper
\* left vertex is tile_coords.
push_alpha_tile(alpha_tiles, mask_tile_index, tile_coords, object_index) ==
    Append(alpha_tiles, [ tile_position   |-> tile_coords,
                          mask_tile_index |-> mask_tile_index,
                          object_index    |-> object_index ])

\* The Tiler's classification of one tile once all fills of the path are in: solid
\* when no alpha slot was allocated and the backdrop covers it under the fill rule,
\* an alpha tile (with a freshly allocated mask tile) when fills landed on it.
BackdropCovers(backdrop, fill_rule) ==
    IF fill_rule = "Winding" THEN backdrop # 0 ELSE backdrop % 2 # 0

ClassifyTile(ob, next_mask, tile_coords, backdrop, object_index, is_draw) ==
    LET tile == [ob.tiles[tile_coords] EXCEPT !.backdrop = backdrop]
        ob1  == [ob EXCEPT !.tiles[tile_coords] = tile]
    IN  IF tile.alpha_tile_index = SENTINEL
        THEN [ ob |-> IF BackdropCovers(backdrop, ob.fill_rule)
                      THEN [ob1 EXCEPT !.solid_tiles = Append(ob.solid_tiles, [coords |-> tile_coords])]
                      ELSE ob1,
               next_mask |-> next_mask ]
        ELSE LET mask_tile_index == allocate_mask_tile_index(next_mask)
             IN  [ ob |-> [ob1 EXCEPT
                            !.mask_tiles  = push_mask_tile(ob.mask_tiles, tile, mask_tile_index,
                                                           object_index),
                            !.alpha_tiles = IF is_draw
                                            THEN push_alpha_tile(ob.alpha_tiles, mask_tile_index,
                                                                 tile_coords, object_index)
                                            ELSE ob.alpha_tiles],
                   next_mask |-> next_mask + 1 ]

\* The classification of the tiles i .. of the view, in row-major order.
RECURSIVE ClassifyTilesFrom(_, _, _, _, _, _)
ClassifyTilesFrom(ob, next_mask, i, backdrop, object_index, is_draw) ==
    IF i > Len(ViewTileSeq) THEN [ob |-> ob, next_mask |-> next_mask]
    ELSE LET r == ClassifyTile(ob, next_mask, ViewTileSeq[i], backdrop[ViewTileSeq[i]],
                               object_index, is_draw)
         IN  ClassifyTilesFrom(r.ob, r.next_mask, i + 1, backdrop, object_index, is_draw)

(***************************************************************************)
(* ZBuffer: the per-layer depth grid.                                      *)
(***************************************************************************)
\* ZBuffer::new(view_box): no coordinate written.
NewZBuffer ==
    [t \in ViewTiles |-> [written |-> FALSE, depth |-> 0, paint |-> [page |-> 0, sampling_flags |-> 0]]]

\* ZBuffer::update: raise the stored depth wherever the path contributed a solid
\* tile; a write with a higher depth wins.
RECURSIVE ZUpdate(_, _, _, _)
ZUpdate(z_buffer, solid_tiles, depth, paint) ==
    IF solid_tiles = << >> THEN z_buffer
    ELSE LET coords == Head(solid_tiles).coords
             cell   == z_buffer[coords]
             z1     == IF ~cell.written \/ depth > cell.depth
                       THEN [z_buffer EXCEPT ![coords] =
                                [written |-> TRUE, depth |-> depth, paint |-> paint]]
                       ELSE z_buffer
         IN  ZUpdate(z1, Tail(solid_tiles), depth, paint)

\* ZBuffer::test(coords, depth): true when depth >= stored depth, that is when the
\* caller's tile is not occluded.
ZTest(z_buffer, coords, depth) ==
    ~z_buffer[coords].written \/ depth >= z_buffer[coords].depth

\* ZBuffer::build_solid_tiles: the written tiles of the final Z-buffer grouped into
\* SolidTileBatches by (texture page, sampling flags) of the winning path's paint.
RECURSIVE ZSolidBatchesFrom(_, _, _)
ZSolidBatchesFrom(z_buffer, i, batches) ==
    IF i > Len(ViewTileSeq) THEN batches
    ELSE LET coords == ViewTileSeq[i]
             cell   == z_buffer[coords]
             tile   == [coords |-> coords, recorded_at |-> cell.depth]
             hits   == { b \in 1..Len(batches) :
                           /\ batches[b].color_texture_page = cell.paint.page
                           /\ batches[b].sampling_flags = cell.paint.sampling_flags }
         IN  IF ~cell.written THEN ZSolidBatchesFrom(z_buffer, i + 1, batches)
             ELSE IF hits # {}
             THEN LET b == CHOOSE b \in hits : TRUE
                  IN  ZSolidBatchesFrom(z_buffer, i + 1,
                         [batches EXCEPT ![b].tiles = Append(batches[b].tiles, tile)])
             ELSE ZSolidBatchesFrom(z_buffer, i + 1,
                     Append(batches, [ kind               |-> "DrawSolidTiles",
                                       tiles              |-> << tile >>,
                                       color_texture_page |-> cell.paint.page,
                                       sampling_flags     |-> cell.paint.sampling_flags,
                                       effects            |-> "none" ]))

ZBuildSolidTiles(z_buffer) == ZSolidBatchesFrom(z_buffer, 1, << >>)

(***************************************************************************)
(* Pass A: SceneBuilder::build_solid_tiles.                                *)
(***************************************************************************)
\* The Z-buffer updates of one DrawPaths item, for paths p .. end_index - 1.
RECURSIVE UpdateRange(_, _, _, _, _, _)
UpdateRange(z_buffer, paths, built_draw_paths, p, end_index, depth) ==
    IF p >= end_index THEN [z_buffer |-> z_buffer, depth |-> depth]
    ELSE UpdateRange(ZUpdate(z_buffer, built_draw_paths[p].path.solid_tiles, depth,
                             [page |-> paths[p].page,
                              sampling_flags |-> paths[p].sampling_flags]),
                     paths, built_draw_paths, p + 1, end_index, depth + 1)

\* Faulty variant of the display-list loop in which a DrawRenderTarget item writes
\* its depth to every tile of the current Z-buffer.
RECURSIVE BuildSolidTilesRenderTargetOccludes(_, _, _, _, _, _, _)
BuildSolidTilesRenderTargetOccludes(display_list, paths, built_draw_paths, i, z_buffers, stack, depth) ==
    IF i > Len(display_list)
    THEN [z_buffers |-> z_buffers, stack |-> stack, depth |-> depth, panicked |-> FALSE]
    ELSE LET item == display_list[i]
         IN  CASE item.type = "PushRenderTarget" ->
                    BuildSolidTilesRenderTargetOccludes(display_list, paths, built_draw_paths, i + 1,
                                        Append(z_buffers, NewZBuffer),
                                        Append(stack, Len(z_buffers)), depth)
               [] item.type = "PopRenderTarget" ->
                    BuildSolidTilesRenderTargetOccludes(display_list, paths, built_draw_paths, i + 1,
                                        z_buffers,
                                        IF stack = << >> THEN stack ELSE Front(stack), depth)
               [] item.type = "DrawPaths" ->
                    IF stack = << >>
                    THEN [z_buffers |-> z_buffers, stack |-> stack, depth |-> depth,
                          panicked |-> TRUE]
                    ELSE LET k   == Last(stack) + 1
                             upd == UpdateRange(z_buffers[k], paths, built_draw_paths,
                                                item.start_index, item.end_index, depth)
                         IN  BuildSolidTilesRenderTargetOccludes(display_list, paths, built_draw_paths, i + 1,
                                                 [z_buffers EXCEPT ![k] = upd.z_buffer],
                                                 stack, upd.depth)
               [] item.type = "DrawRenderTarget" ->
                    IF stack = << >>
                    THEN BuildSolidTilesRenderTargetOccludes(display_list, paths,
                             built_draw_paths, i + 1, z_buffers, stack, depth + 1)
                    ELSE BuildSolidTilesRenderTargetOccludes(display_list, paths,
                             built_draw_paths, i + 1,
                             [z_buffers EXCEPT ![Last(stack) + 1] =
                                 ZUpdate(@, [k \in DOMAIN ViewTileSeq |-> [coords |-> ViewTileSeq[k]]],
                                         depth, [page |-> 0, sampling_flags |-> 0])],
                             stack, depth + 1)

\* The display-list loop from item i on.  z_buffers is the Vec<ZBuffer> (entry k
\* of the Vec is z_buffers[k + 1]); stack is z_buffer_index_stack.
RECURSIVE BuildSolidTilesFrom(_, _, _, _, _, _, _)
BuildSolidTilesFrom(display_list, paths, built_draw_paths, i, z_buffers, stack, depth) ==
    IF i > Len(display_list)
    THEN [z_buffers |-> z_buffers, stack |-> stack, depth |-> depth, panicked |-> FALSE]
    ELSE LET item == display_list[i]
         IN  CASE item.type = "PushRenderTarget" ->
                    BuildSolidTilesFrom(display_list, paths, built_draw_paths, i + 1,
                                        Append(z_buffers, NewZBuffer),
                                        Append(stack, Len(z_buffers)), depth)
               [] item.type = "PopRenderTarget" ->
                    BuildSolidTilesFrom(display_list, paths, built_draw_paths, i + 1,
                                        z_buffers,
                                        IF stack = << >> THEN stack ELSE Front(stack), depth)
               [] item.type = "DrawPaths" ->
                    IF stack = << >>
                    THEN [z_buffers |-> z_buffers, stack |-> stack, depth |-> depth,
                          panicked |-> TRUE]
                    ELSE LET k   == Last(stack) + 1
                             upd == UpdateRange(z_buffers[k], paths, built_draw_paths,
                                                item.start_index, item.end_index, depth)
                         IN  BuildSolidTilesFrom(display_list, paths, built_draw_paths, i + 1,
                                                 [z_buffers EXCEPT ![k] = upd.z_buffer],
                                                 stack, upd.depth)
               [] item.type = "DrawRenderTarget" ->
                    BuildSolidTilesFrom(display_list, paths, built_draw_paths, i + 1,
                                        z_buffers, stack, depth + 1)

\* Faulty variant of build_solid_tiles that counts depths from one.
build_solid_tiles_from_depth_one(display_list, paths, built_draw_paths) ==
    BuildSolidTilesFrom(display_list, paths, built_draw_paths, 1, << NewZBuffer >>, << 0 >>, 1)

\* Faulty variant of build_solid_tiles whose index stack starts without the root.
build_solid_tiles_without_root(display_list, paths, built_draw_paths) ==
    BuildSolidTilesFrom(display_list, paths, built_draw_paths, 1, << NewZBuffer >>, << >>, 0)

build_solid_tiles(display_list, paths, built_draw_paths) ==
    BuildSolidTilesFrom(display_list, paths, built_draw_paths, 1, << NewZBuffer >>, << 0 >>, 0)

\* SceneBuilder::needs_readable_framebuffer: the scan of the display list from
\* item i on with the signed counter framebuffer_nesting.
RECURSIVE NeedsReadableFramebufferFrom(_, _, _, _)
NeedsReadableFramebufferFrom(display_list, paths, i, framebuffer_nesting) ==
    IF i > Len(display_list) THEN FALSE
    ELSE LET item == display_list[i]
         IN  CASE item.type = "DrawRenderTarget" ->
                    NeedsReadableFramebufferFrom(display_list, paths, i + 1, framebuffer_nesting)
               [] item.type = "PushRenderTarget" ->
                    NeedsReadableFramebufferFrom(display_list, paths, i + 1, framebuffer_nesting + 1)
               [] item.type = "PopRenderTarget" ->
                    NeedsReadableFramebufferFrom(display_list, paths, i + 1, framebuffer_nesting - 1)
               [] item.type = "DrawPaths" ->
                    IF framebuffer_nesting > 0
                    THEN NeedsReadableFramebufferFrom(display_list, paths, i + 1, framebuffer_nesting)
                    ELSE IF \E path_index \in item.start_index .. (item.end_index - 1) :
                               needs_readable_framebuffer_mode(paths[path_index].blend_mode)
                         THEN TRUE
                         ELSE NeedsReadableFramebufferFrom(display_list, paths, i + 1,
                                                           framebuffer_nesting)

needs_readable_framebuffer(display_list, paths) ==
    NeedsReadableFramebufferFrom(display_list, paths, 1, 0)

(***************************************************************************)
(* Pass B: SceneBuilder::cull_tiles, one display item or one draw path at  *)
(* a time.  A cull record holds the locals of cull_tiles.                  *)
(***************************************************************************)
TexturePages == {0, 1}
\* render_target_metadata[id].location.page: a page of its own per render target.
RenderTargetPage(id) == Cardinality(TexturePages) + id

\* CulledTiles::push_mask_tiles
push_mask_tiles(culled_tiles, built_path) ==
    IF built_path.fill_rule = "Winding"
    THEN [culled_tiles EXCEPT !.mask_winding_tiles = @ \o built_path.mask_tiles]
    ELSE [culled_tiles EXCEPT !.mask_evenodd_tiles = @ \o built_path.mask_tiles]

RECURSIVE PushClipMaskTiles(_, _, _)
PushClipMaskTiles(culled_tiles, built_clip_paths, i) ==
    IF i \notin DOMAIN built_clip_paths THEN culled_tiles
    ELSE PushClipMaskTiles(push_mask_tiles(culled_tiles, built_clip_paths[i]),
                           built_clip_paths, i + 1)

NoCull ==
    [ culled_tiles |-> [mask_winding_tiles |-> << >>, mask_evenodd_tiles |-> << >>,
                        display_list |-> << >>],
      remaining_layer_z_buffers |-> << >>,
      layer_z_buffers_stack     |-> << >>,
      current_depth             |-> 0,
      item                      |-> 0,
      in_draw_paths             |-> FALSE,
      draw_path_index           |-> 0 ]

\* Faulty variant of the start of cull_tiles that emits a solid tile batch for the
\* first Z-buffer also when the buffer holds no solid tile.
CullStartWithEmptyBatch(z_buffers, built_clip_paths) ==
    LET remaining      == Reverse(z_buffers)
        first_z_buffer == Last(remaining)
        batches        == ZBuildSolidTiles(first_z_buffer)
    IN  [ culled_tiles |->
              [ PushClipMaskTiles(NoCull.culled_tiles, built_clip_paths, 0)
                  EXCEPT !.display_list =
                      IF batches = << >>
                      THEN << [ kind |-> "DrawSolidTiles", tiles |-> << >>,
                                color_texture_page |-> 0, sampling_flags |-> 0,
                                effects |-> "none" ] >>
                      ELSE batches ],
          remaining_layer_z_buffers |-> Front(remaining),
          layer_z_buffers_stack     |-> << first_z_buffer >>,
          current_depth             |-> 1,
          item                      |-> 1,
          in_draw_paths             |-> FALSE,
          draw_path_index           |-> 0 ]

\* cull_tiles up to its display-list loop: the clip paths' mask tiles, the
\* Z-buffers of Pass A reversed, the first Z-buffer's solid tiles.
CullStart(z_buffers, built_clip_paths) ==
    LET remaining      == Reverse(z_buffers)
        first_z_buffer == Last(remaining)
    IN  [ culled_tiles |->
              [ PushClipMaskTiles(NoCull.culled_tiles, built_clip_paths, 0)
                  EXCEPT !.display_list = ZBuildSolidTiles(first_z_buffer) ],
          remaining_layer_z_buffers |-> Front(remaining),
          layer_z_buffers_stack     |-> << first_z_buffer >>,
          current_depth             |-> 1,
          item                      |-> 1,
          in_draw_paths             |-> FALSE,
          draw_path_index           |-> 0 ]

\* Faulty variant of RenderTargetTiles that keeps every tile of the view.
RenderTargetTilesUntested(layer_z_buffer, current_depth, i) ==
    [k \in 1..(Len(ViewTileSeq) + 1 - i) |->
        [coords |-> ViewTileSeq[i + k - 1], tested_at |-> current_depth]]

\* The tiles of a DrawRenderTarget batch: the view tiles that pass the test.
RECURSIVE RenderTargetTiles(_, _, _)
RenderTargetTiles(layer_z_buffer, current_depth, i) ==
    IF i > Len(ViewTileSeq) THEN << >>
    ELSE LET rest == RenderTargetTiles(layer_z_buffer, current_depth, i + 1)
         IN  IF ZTest(layer_z_buffer, ViewTileSeq[i], current_depth)
             THEN << [coords |-> ViewTileSeq[i], tested_at |-> current_depth] >> \o rest
             ELSE rest

\* The alpha tiles of a path that pass the test, in the path's order.  Each copy
\* is tagged with the depth it was tested at (a history field, not AlphaTile data).
RECURSIVE RetainedAlphaTiles(_, _, _)
RetainedAlphaTiles(layer_z_buffer, alpha_tiles, current_depth) ==
    IF alpha_tiles = << >> THEN << >>
    ELSE LET rest == RetainedAlphaTiles(layer_z_buffer, Tail(alpha_tiles), current_depth)
             tile == Head(alpha_tiles)
         IN  IF ZTest(layer_z_buffer, tile.tile_position, current_depth)
             THEN << [ tile_position   |-> tile.tile_position,
                       mask_tile_index |-> tile.mask_tile_index,
                       object_index    |-> tile.object_index,
                       tested_at       |-> current_depth ] >> \o rest
             ELSE rest

\* Faulty variants of the batching guard, against which the batching properties
\* are validated: one that reuses a readback batch, one that ignores the sampling
\* flags of the key.
ReusesLastBatchIgnoringReadback(culled_display_list, built_draw_path) ==
    /\ culled_display_list # << >>
    /\ Last(culled_display_list).kind = "DrawAlphaTiles"
    /\ Last(culled_display_list).color_texture_page = built_draw_path.color_texture_page
    /\ Last(culled_display_list).blend_mode = built_draw_path.blend_mode
    /\ Last(culled_display_list).sampling_flags = built_draw_path.sampling_flags

ReusesLastBatchIgnoringFlags(culled_display_list, built_draw_path) ==
    /\ culled_display_list # << >>
    /\ Last(culled_display_list).kind = "DrawAlphaTiles"
    /\ Last(culled_display_list).color_texture_page = built_draw_path.color_texture_page
    /\ Last(culled_display_list).blend_mode = built_draw_path.blend_mode
    /\ ~needs_readable_framebuffer_mode(Last(culled_display_list).blend_mode)

\* The guard of the `match culled_tiles.display_list.last()` arm that reuses the
\* last batch.
ReusesLastBatch(culled_display_list, built_draw_path) ==
    /\ culled_display_list # << >>
    /\ Last(culled_display_list).kind = "DrawAlphaTiles"
    /\ Last(culled_display_list).color_texture_page = built_draw_path.color_texture_page
    /\ Last(culled_display_list).blend_mode = built_draw_path.blend_mode
    /\ Last(culled_display_list).sampling_flags = built_draw_path.sampling_flags
    /\ ~needs_readable_framebuffer_mode(Last(culled_display_list).blend_mode)

NewAlphaTileBatch(built_draw_path) ==
    [ kind               |-> "DrawAlphaTiles",
      tiles              |-> << >>,
      color_texture_page |-> built_draw_path.color_texture_page,
      blend_mode         |-> built_draw_path.blend_mode,
      sampling_flags     |-> built_draw_path.sampling_flags ]

\* The body of the `for draw_path_index in start..end` loop for one path.  The
\* result is a cull record, with panicked set when layer_z_buffers_stack is empty.
CullDrawPath(c, built_draw_path) ==
    LET ct1   == push_mask_tiles(c.culled_tiles, built_draw_path.path)
        dl1   == IF ReusesLastBatch(ct1.display_list, built_draw_path)
                 THEN ct1.display_list
                 ELSE Append(ct1.display_list, NewAlphaTileBatch(built_draw_path))
        n     == Len(dl1)
    IN  IF c.layer_z_buffers_stack = << >>
        THEN [ c |-> [c EXCEPT !.culled_tiles = [ct1 EXCEPT !.display_list = dl1]],
               panicked |-> TRUE ]
        ELSE LET kept == RetainedAlphaTiles(Last(c.layer_z_buffers_stack),
                                            built_draw_path.path.alpha_tiles,
                                            c.current_depth)
             IN  [ c |-> [c EXCEPT
                           !.culled_tiles  = [ct1 EXCEPT !.display_list =
                                                 [dl1 EXCEPT ![n].tiles = @ \o kept]],
                           !.current_depth = @ + 1],
                   panicked |-> FALSE ]

\* Faulty variant of the arms in which DrawRenderTarget pushes no entry.
CullItemWithoutRenderTargetBatch(c, item) ==
    CASE item.type = "PushRenderTarget" ->
           IF c.remaining_layer_z_buffers = << >>
           THEN [ c |-> [c EXCEPT !.culled_tiles.display_list =
                            Append(@, [kind |-> "PushRenderTarget",
                                       render_target |-> item.render_target])],
                  panicked |-> TRUE ]
           ELSE LET z_buffer == Last(c.remaining_layer_z_buffers)
                IN  [ c |-> [c EXCEPT
                              !.culled_tiles.display_list =
                                  Append(@, [kind |-> "PushRenderTarget",
                                             render_target |-> item.render_target])
                                  \o ZBuildSolidTiles(z_buffer),
                              !.remaining_layer_z_buffers = Front(@),
                              !.layer_z_buffers_stack = Append(@, z_buffer)],
                      panicked |-> FALSE ]
      [] item.type = "PopRenderTarget" ->
           [ c |-> [c EXCEPT
                     !.culled_tiles.display_list = Append(@, [kind |-> "PopRenderTarget"]),
                     !.layer_z_buffers_stack = IF @ = << >> THEN @ ELSE Front(@)],
             panicked |-> FALSE ]
      [] item.type = "DrawRenderTarget" ->
           IF c.layer_z_buffers_stack = << >>
           THEN [ c |-> c, panicked |-> TRUE ]
           ELSE [ c |-> [c EXCEPT !.current_depth = @ + 1], panicked |-> FALSE ]

\* Faulty variant of the arms in which PushRenderTarget emits the layer's solid
\* tiles before the marker.
CullItemMarkerAfterTiles(c, item) ==
    CASE item.type = "PushRenderTarget" ->
           IF c.remaining_layer_z_buffers = << >>
           THEN [ c |-> c, panicked |-> TRUE ]
           ELSE LET z_buffer == Last(c.remaining_layer_z_buffers)
                IN  [ c |-> [c EXCEPT
                              !.culled_tiles.display_list =
                                  (@ \o ZBuildSolidTiles(z_buffer))
                                  \o << [kind |-> "PushRenderTarget",
                                         render_target |-> item.render_target] >>,
                              !.remaining_layer_z_buffers = Front(@),
                              !.layer_z_buffers_stack = Append(@, z_buffer)],
                      panicked |-> FALSE ]
      [] item.type = "PopRenderTarget" ->
           [ c |-> [c EXCEPT
                     !.culled_tiles.display_list = Append(@, [kind |-> "PopRenderTarget"]),
                     !.layer_z_buffers_stack = IF @ = << >> THEN @ ELSE Front(@)],
             panicked |-> FALSE ]
      [] item.type = "DrawRenderTarget" ->
           IF c.layer_z_buffers_stack = << >>
           THEN [ c |-> c, panicked |-> TRUE ]
           ELSE [ c |-> [c EXCEPT
                          !.culled_tiles.display_list =
                              Append(@, [ kind  |-> "DrawSolidTiles",
                                          tiles |-> RenderTargetTiles(Last(c.layer_z_buffers_stack),
                                                                      c.current_depth, 1),
                                          color_texture_page |-> RenderTargetPage(item.render_target),
                                          sampling_flags     |-> 0,
                                          effects            |-> item.effects ]),
                          !.current_depth = @ + 1],
                  panicked |-> FALSE ]

\* The PushRenderTarget, PopRenderTarget and DrawRenderTarget arms.
CullItem(c, item) ==
    CASE item.type = "PushRenderTarget" ->
           IF c.remaining_layer_z_buffers = << >>
           THEN [ c |-> [c EXCEPT !.culled_tiles.display_list =
                            Append(@, [kind |-> "PushRenderTarget",
                                       render_target |-> item.render_target])],
                  panicked |-> TRUE ]
           ELSE LET z_buffer == Last(c.remaining_layer_z_buffers)
                IN  [ c |-> [c EXCEPT
                              !.culled_tiles.display_list =
                                  Append(@, [kind |-> "PushRenderTarget",
                                             render_target |-> item.render_target])
                                  \o ZBuildSolidTiles(z_buffer),
                              !.remaining_layer_z_buffers = Front(@),
                              !.layer_z_buffers_stack = Append(@, z_buffer)],
                      panicked |-> FALSE ]
      [] item.type = "PopRenderTarget" ->
           [ c |-> [c EXCEPT
                     !.culled_tiles.display_list = Append(@, [kind |-> "PopRenderTarget"]),
                     !.layer_z_buffers_stack = IF @ = << >> THEN @ ELSE Front(@)],
             panicked |-> FALSE ]
      [] item.type = "DrawRenderTarget" ->
           IF c.layer_z_buffers_stack = << >>
           THEN [ c |-> c, panicked |-> TRUE ]
           ELSE [ c |-> [c EXCEPT
                          !.culled_tiles.display_list =
                              Append(@, [ kind  |-> "DrawSolidTiles",
                                          tiles |-> RenderTargetTiles(Last(c.layer_z_buffers_stack),
                                                                      c.current_depth, 1),
                                          color_texture_page |-> RenderTargetPage(item.render_target),
                                          sampling_flags     |-> 0,
                                          effects            |-> item.effects ]),
                          !.current_depth = @ + 1],
                  panicked |-> FALSE ]

\* Faulty variant of pack_tiles that sends the even-odd mask tiles first.
pack_tiles_evenodd_first(culled_tiles) ==
    (IF culled_tiles.mask_evenodd_tiles # << >>
     THEN << [kind |-> "RenderMaskTiles", tiles |-> culled_tiles.mask_evenodd_tiles,
              fill_rule |-> "EvenOdd"] >>
     ELSE << >>)
    \o
    (IF culled_tiles.mask_winding_tiles # << >>
     THEN << [kind |-> "RenderMaskTiles", tiles |-> culled_tiles.mask_winding_tiles,
              fill_rule |-> "Winding"] >>
     ELSE << >>)
    \o culled_tiles.display_list

\* Faulty variant of pack_tiles that replays the culled display list before the
\* mask tiles.
pack_tiles_masks_last(culled_tiles) ==
    culled_tiles.display_list
    \o
    (IF culled_tiles.mask_winding_tiles # << >>
     THEN << [kind |-> "RenderMaskTiles", tiles |-> culled_tiles.mask_winding_tiles,
              fill_rule |-> "Winding"] >>
     ELSE << >>)
    \o
    (IF culled_tiles.mask_evenodd_tiles # << >>
     THEN << [kind |-> "RenderMaskTiles", tiles |-> culled_tiles.mask_evenodd_tiles,
              fill_rule |-> "EvenOdd"] >>
     ELSE << >>)

\* SceneBuilder::pack_tiles: the commands it sends, in order.
pack_tiles(culled_tiles) ==
    (IF culled_tiles.mask_winding_tiles # << >>
     THEN << [kind |-> "RenderMaskTiles", tiles |-> culled_tiles.mask_winding_tiles,
              fill_rule |-> "Winding"] >>
     ELSE << >>)
    \o
    (IF culled_tiles.mask_evenodd_tiles # << >>
     THEN << [kind |-> "RenderMaskTiles", tiles |-> culled_tiles.mask_evenodd_tiles,
              fill_rule |-> "EvenOdd"] >>
     ELSE << >>)
    \o culled_tiles.display_list

(***************************************************************************)
(* Scenes.  An outline is given by what the Tiler derives from it: the     *)
(* add_fill calls it makes, in order, and the backdrop of every tile.      *)
(***************************************************************************)
\* n pixels in the units of add_fill's segment coordinates.
Px(n) == n * 256 * SubSteps

\* A segment inside tile t that add_fill keeps.
GoodSegment(t) ==
    << Px(TILE_WIDTH * t[1] + 1), Px(TILE_WIDTH * t[2]),
       Px(TILE_WIDTH * t[1] + 3), Px(TILE_WIDTH * t[2] + 2) >>
\* A segment inside tile t whose x coordinates quantize to the same value.
DegenerateSegment(t) ==
    << Px(TILE_WIDTH * t[1] + 1), Px(TILE_WIDTH * t[2]),
       Px(TILE_WIDTH * t[1] + 1) + 1, Px(TILE_WIDTH * t[2] + 2) >>

FillRequests ==
    { [segment |-> GoodSegment(t), tile_coords |-> t] : t \in ViewTiles }
    \cup { [segment |-> DegenerateSegment(ViewTileSeq[1]), tile_coords |-> ViewTileSeq[1]],
           [segment |-> GoodSegment(OutsideTile), tile_coords |-> OutsideTile] }

NoBackdrop == [t \in ViewTiles |-> 0]
EmptyOutline == [fill_requests |-> << >>, backdrop |-> NoBackdrop]
\* One fill lands on tile t: t becomes an alpha tile.
AlphaOutline(t) ==
    [fill_requests |-> << [segment |-> GoodSegment(t), tile_coords |-> t] >>,
     backdrop |-> NoBackdrop]
\* No fill lands on tile t and its backdrop is 1: t becomes a solid tile.
SolidOutline(t) ==
    [fill_requests |-> << >>, backdrop |-> [NoBackdrop EXCEPT ![t] = 1]]

\* No fill lands anywhere and the backdrop is 1 everywhere: every tile is solid.
FullOutline == [fill_requests |-> << >>, backdrop |-> [t \in ViewTiles |-> 1]]

DrawPath(blend_mode, page, sampling_flags, fill_rule, clip_path, outline) ==
    [ blend_mode |-> blend_mode, page |-> page, sampling_flags |-> sampling_flags,
      fill_rule |-> fill_rule, clip_path |-> clip_path, outline |-> outline ]
ClipPath(fill_rule, outline) == [fill_rule |-> fill_rule, outline |-> outline]

NoClip == -1

Scene(display_list, paths, clip_paths) ==
    [display_list |-> display_list, paths |-> paths, clip_paths |-> clip_paths]

DisplayItems(n) ==
    { PushRenderTargetItem(0), PopRenderTargetItem, DrawRenderTargetItem(0, "blur") }
    \cup { DrawPathsItem(r[1], r[2]) : r \in { q \in (0..n) \X (0..n) : q[1] < q[2] } }

\* Every display list of at most MaxItems items over at most one draw path: all
\* nestings of render targets, balanced or not, and paths no item references.
RenderTargetScenes ==
    { Scene(dl, << >>, << >>) : dl \in SeqsUpTo(DisplayItems(0), MaxItems) }
    \cup
    { Scene(dl, [i \in {0} |-> DrawPath(b, 0, 0, "Winding", NoClip, o)], << >>) :
        dl \in SeqsUpTo(DisplayItems(1), MaxItems),
        b \in {"SrcOver", "Multiply"},
        o \in {EmptyOutline, AlphaOutline(ViewTileSeq[1]), SolidOutline(ViewTileSeq[1])} }

\* The batch keys of the draw paths of PathScenes: each differs from the first in
\* one component.
BatchKeys ==
    { [page |-> 0, blend_mode |-> "SrcOver",  sampling_flags |-> 0],
      [page |-> 1, blend_mode |-> "SrcOver",  sampling_flags |-> 0],
      [page |-> 0, blend_mode |-> "Multiply", sampling_flags |-> 0],
      [page |-> 0, blend_mode |-> "SrcOver",  sampling_flags |-> 1] }

\* Display lists that draw paths 0 .. n-1 in order, consecutive paths in one
\* DrawPaths item or separated by one item of seps[i].
RECURSIVE OrderedDisplayList(_, _, _, _)
OrderedDisplayList(n, seps, p, start) ==
    IF p = n THEN << DrawPathsItem(start, n) >>
    ELSE IF seps[p] = "none" THEN OrderedDisplayList(n, seps, p + 1, start)
    ELSE << DrawPathsItem(start, p),
            CASE seps[p] = "push" -> PushRenderTargetItem(0)
              [] seps[p] = "pop"  -> PopRenderTargetItem
              [] seps[p] = "draw" -> DrawRenderTargetItem(0, "blur") >>
         \o OrderedDisplayList(n, seps, p + 1, p)

\* Scenes of 2 .. MaxDrawPaths draw paths, each with an alpha tile at the first
\* view tile, with every combination of batch keys.
PathScenes ==
    UNION { { Scene(OrderedDisplayList(n, seps, 1, 0),
                    [i \in 0..(n - 1) |->
                        DrawPath(keys[i].blend_mode, keys[i].page, keys[i].sampling_flags,
                                 "Winding", NoClip, AlphaOutline(ViewTileSeq[1]))],
                    << >>) :
              seps \in [1..(n - 1) -> {"none", "push", "pop", "draw"}],
              keys \in [0..(n - 1) -> BatchKeys] }
            : n \in 2..MaxDrawPaths }

\* Scenes of 2 .. MaxDrawPaths SrcOver draw paths of one batch key, each with an
\* alpha tile or a solid tile at the first view tile.
OcclusionScenes ==
    UNION { { Scene(OrderedDisplayList(n, seps, 1, 0),
                    [i \in 0..(n - 1) |->
                        DrawPath("SrcOver", 0, 0, "Winding", NoClip, outlines[i])],
                    << >>) :
              seps \in [1..(n - 1) -> {"none", "push", "pop", "draw"}],
              outlines \in [0..(n - 1) ->
                              {AlphaOutline(ViewTileSeq[1]), SolidOutline(ViewTileSeq[1])}] }
            : n \in 2..MaxDrawPaths }

\* Scenes with one clip path and one draw path that may use it.
ClipScenes ==
    { Scene(<< DrawPathsItem(0, 1) >>,
            [i \in {0} |-> DrawPath("SrcOver", 0, 0, r, c, AlphaOutline(ViewTileSeq[2]))],
            [i \in {0} |-> ClipPath(cr, co)]) :
        r \in {"Winding", "EvenOdd"}, c \in {NoClip, 0},
        cr \in {"Winding", "EvenOdd"},
        co \in {EmptyOutline, AlphaOutline(ViewTileSeq[1])} }

\* The render-target round trip: 1 .. MaxDrawPaths paths drawn into render target
\* 0, which is then drawn with an effect.
RoundTripEffects == {"blur", "shadow"}
RoundTripScenes ==
    UNION { { Scene(<< PushRenderTargetItem(0), DrawPathsItem(0, n), PopRenderTargetItem,
                       DrawRenderTargetItem(0, fx) >>,
                    [i \in 0..(n - 1) |->
                        DrawPath(blends[i], 0, 0, "Winding", NoClip, outlines[i])],
                    << >>) :
              fx \in RoundTripEffects,
              blends \in [0..(n - 1) -> {"SrcOver", "Multiply"}],
              outlines \in [0..(n - 1) ->
                              {AlphaOutline(ViewTileSeq[1]), SolidOutline(ViewTileSeq[2])}] }
            : n \in 1..MaxDrawPaths }

\* A path that covers the whole view, drawn before, between or after draws of a
\* render target.
CoveredScenes ==
    { Scene(dl, [i \in {0} |-> DrawPath("SrcOver", 0, 0, "Winding", NoClip, FullOutline)],
            << >>) :
        dl \in [1..3 -> {DrawRenderTargetItem(0, "shadow"), DrawPathsItem(0, 1)}] }

Scenes ==
    RenderTargetScenes \cup PathScenes \cup OcclusionScenes \cup ClipScenes
        \cup RoundTripScenes \cup CoveredScenes

(***************************************************************************)
(* The state machine of one build().                                       *)
(***************************************************************************)
NumClipPaths == Cardinality(DOMAIN scene.clip_paths)
NumDrawPaths == Cardinality(DOMAIN scene.paths)
ClipIds == DOMAIN scene.clip_paths
DrawIds == DOMAIN scene.paths

\* A build_vector task: its Tiler after `pos` add_fill calls, with its tiles
\* classified or not; done once AddFills is sent and the built path returned.
NewWorker(fill_rule) ==
    [ pos |-> 0, classified |-> FALSE, done |-> FALSE,
      ob |-> NewObjectBuilder(ViewTiles, fill_rule) ]

WorkerStage(w, outline) ==
    IF w.done THEN "done"
    ELSE IF w.pos < Len(outline.fill_requests) THEN "fills"
    ELSE IF ~w.classified THEN "classify"
    ELSE "send"

Init ==
    /\ scene \in Scenes
    /\ pc = "new"
    /\ stream = << >>
    /\ next_alpha_tile_index = 0
    /\ next_mask_tile_index = 0
    /\ clip_workers = [i \in DOMAIN scene.clip_paths |-> NewWorker(scene.clip_paths[i].fill_rule)]
    /\ draw_workers = [i \in DOMAIN scene.paths |-> NewWorker(scene.paths[i].fill_rule)]
    /\ alpha_claims = {}
    /\ earlier_claims = 0
    /\ cull = NoCull

\* Scene::build_paint_info().render_commands: one command per texture page the
\* draw paths use, in page order.
RECURSIVE PaintCommandsFrom(_, _)
PaintCommandsFrom(paths, page) ==
    IF page \notin TexturePages THEN << >>
    ELSE (IF \E i \in DOMAIN paths : paths[i].page = page
          THEN << [kind |-> "PaintSetup", page |-> page] >>
          ELSE << >>) \o PaintCommandsFrom(paths, page + 1)

\* build() up to the first build_vector: Start, then the paint commands.
BuildStart ==
    /\ pc = "new"
    /\ stream' = << [ kind |-> "Start",
                      path_count |-> NumClipPaths + NumDrawPaths,
                      needs_readable_framebuffer |->
                          needs_readable_framebuffer(scene.display_list, scene.paths) ] >>
                 \o PaintCommandsFrom(scene.paths, 0)
    /\ pc' = "tiling"
    /\ UNCHANGED << scene, next_alpha_tile_index, next_mask_tile_index, clip_workers,
                    draw_workers, alpha_claims, earlier_claims, cull >>

\* One add_fill call of the Tiler of worker w on outline o; owner names the path.
WorkerAddFill(w, o, owner) ==
    LET req == o.fill_requests[w.pos + 1]
        r   == add_fill(w.ob, next_alpha_tile_index, req.segment, req.tile_coords)
    IN  [ w      |-> [w EXCEPT !.pos = @ + 1, !.ob = r.ob],
          next   |-> r.next,
          claims |-> IF r.claimed
                     THEN { [ owner |-> owner, tile |-> req.tile_coords,
                              raw |-> next_alpha_tile_index,
                              index |-> r.ob.tiles[req.tile_coords].alpha_tile_index ] }
                     ELSE {} ]

\* The classification of the tiles by the Tiler of worker w, each alpha tile with
\* a mask tile index from the shared counter.
WorkerClassify(w, o, object_index, is_draw) ==
    LET r == ClassifyTilesFrom(w.ob, next_mask_tile_index, 1, o.backdrop, object_index, is_draw)
    IN  [ w |-> [w EXCEPT !.classified = TRUE, !.ob = r.ob], next_mask |-> r.next_mask ]

\* Faulty variant of AllClipDone: the second build_vector does not wait for the
\* first.
AllClipDoneNotAwaited == TRUE

AllClipDone == \A i \in ClipIds : clip_workers[i].done
AllDrawDone == \A i \in DrawIds : draw_workers[i].done

\* build_clip_path, one atomic operation of its task at a time.
ClipAddFill(i) ==
    /\ pc = "tiling"
    /\ WorkerStage(clip_workers[i], scene.clip_paths[i].outline) = "fills"
    /\ LET r == WorkerAddFill(clip_workers[i], scene.clip_paths[i].outline, <<"clip", i>>)
       IN  /\ clip_workers' = [clip_workers EXCEPT ![i] = r.w]
           /\ next_alpha_tile_index' = r.next
           /\ alpha_claims' = alpha_claims \cup r.claims
    /\ UNCHANGED << scene, pc, stream, next_mask_tile_index, draw_workers, earlier_claims, cull >>

ClipClassify(i) ==
    /\ pc = "tiling"
    /\ WorkerStage(clip_workers[i], scene.clip_paths[i].outline) = "classify"
    /\ LET r == WorkerClassify(clip_workers[i], scene.clip_paths[i].outline, i, FALSE)
       IN  /\ clip_workers' = [clip_workers EXCEPT ![i] = r.w]
           /\ next_mask_tile_index' = r.next_mask
    /\ UNCHANGED << scene, pc, stream, next_alpha_tile_index, draw_workers, alpha_claims,
                    earlier_claims, cull >>

ClipSend(i) ==
    /\ pc = "tiling"
    /\ WorkerStage(clip_workers[i], scene.clip_paths[i].outline) = "send"
    /\ stream' = Append(stream, [kind |-> "AddFills", fills |-> clip_workers[i].ob.fills,
                                 from |-> <<"clip", i>>])
    /\ clip_workers' = [clip_workers EXCEPT ![i].done = TRUE]
    /\ UNCHANGED << scene, pc, next_alpha_tile_index, next_mask_tile_index, draw_workers,
                    alpha_claims, earlier_claims, cull >>

\* build_draw_path, one atomic operation of its task at a time.  The second
\* build_vector starts when the first has returned.
DrawAddFill(i) ==
    /\ pc = "tiling"
    /\ AllClipDone
    /\ WorkerStage(draw_workers[i], scene.paths[i].outline) = "fills"
    /\ LET r == WorkerAddFill(draw_workers[i], scene.paths[i].outline, <<"draw", i>>)
       IN  /\ draw_workers' = [draw_workers EXCEPT ![i] = r.w]
           /\ next_alpha_tile_index' = r.next
           /\ alpha_claims' = alpha_claims \cup r.claims
    /\ UNCHANGED << scene, pc, stream, next_mask_tile_index, clip_workers, earlier_claims, cull >>

DrawClassify(i) ==
    /\ pc = "tiling"
    /\ AllClipDone
    /\ WorkerStage(draw_workers[i], scene.paths[i].outline) = "classify"
    /\ LET r == WorkerClassify(draw_workers[i], scene.paths[i].outline, i, TRUE)
       IN  /\ draw_workers' = [draw_workers EXCEPT ![i] = r.w]
           /\ next_mask_tile_index' = r.next_mask
    /\ UNCHANGED << scene, pc, stream, next_alpha_tile_index, clip_workers, alpha_claims,
                    earlier_claims, cull >>

\* Faulty variant of the end of build_draw_path that sends AddFills only for a
\* path that has fills.
DrawSendIfAnyFills(i) ==
    /\ pc = "tiling"
    /\ AllClipDone
    /\ WorkerStage(draw_workers[i], scene.paths[i].outline) = "send"
    /\ stream' = IF draw_workers[i].ob.fills = << >> THEN stream
                 ELSE Append(stream, [kind |-> "AddFills", fills |-> draw_workers[i].ob.fills,
                                      from |-> <<"draw", i>>])
    /\ draw_workers' = [draw_workers EXCEPT ![i].done = TRUE]
    /\ UNCHANGED << scene, pc, next_alpha_tile_index, next_mask_tile_index, clip_workers,
                    alpha_claims, earlier_claims, cull >>

DrawSend(i) ==
    /\ pc = "tiling"
    /\ AllClipDone
    /\ WorkerStage(draw_workers[i], scene.paths[i].outline) = "send"
    /\ stream' = Append(stream, [kind |-> "AddFills", fills |-> draw_workers[i].ob.fills,
                                 from |-> <<"draw", i>>])
    /\ draw_workers' = [draw_workers EXCEPT ![i].done = TRUE]
    /\ UNCHANGED << scene, pc, next_alpha_tile_index, next_mask_tile_index, clip_workers,
                    alpha_claims, earlier_claims, cull >>

\* The vectors build_vector returns: entry i is the result of task i.
built_clip_paths == [i \in ClipIds |-> clip_workers[i].ob]
built_draw_paths ==
    [i \in DrawIds |-> [ path               |-> draw_workers[i].ob,
                         blend_mode         |-> scene.paths[i].blend_mode,
                         color_texture_page |-> scene.paths[i].page,
                         sampling_flags     |-> scene.paths[i].sampling_flags ]]

PassA == build_solid_tiles(scene.display_list, scene.paths, built_draw_paths)

\* Faulty variant of finish_building that sends no FlushFills.
FinishBuildingWithoutFlush ==
    /\ pc = "tiling"
    /\ AllClipDone /\ AllDrawDone
    /\ IF PassA.panicked
       THEN pc' = "panicked" /\ cull' = cull
       ELSE pc' = "culling" /\ cull' = CullStart(PassA.z_buffers, built_clip_paths)
    /\ UNCHANGED << scene, stream, next_alpha_tile_index, next_mask_tile_index,
                    clip_workers, draw_workers, alpha_claims, earlier_claims >>

\* finish_building: FlushFills, then cull_tiles up to its display-list loop.
\* Pass A panics at a DrawPaths item reached with an empty index stack.
FinishBuilding ==
    /\ pc = "tiling"
    /\ AllClipDone /\ AllDrawDone
    /\ stream' = Append(stream, [kind |-> "FlushFills"])
    /\ IF PassA.panicked
       THEN pc' = "panicked" /\ cull' = cull
       ELSE pc' = "culling" /\ cull' = CullStart(PassA.z_buffers, built_clip_paths)
    /\ UNCHANGED << scene, next_alpha_tile_index, next_mask_tile_index, clip_workers,
                    draw_workers, alpha_claims, earlier_claims >>

\* The same step in a build with debug assertions, where Pass A ends with an
\* index stack of a length other than one: debug_assert_eq! panics.
FinishBuildingAssertFails ==
    /\ pc = "tiling"
    /\ AllClipDone /\ AllDrawDone
    /\ ~PassA.panicked
    /\ Len(PassA.stack) # 1
    /\ stream' = Append(stream, [kind |-> "FlushFills"])
    /\ pc' = "panicked"
    /\ UNCHANGED << scene, next_alpha_tile_index, next_mask_tile_index, clip_workers,
                    draw_workers, alpha_claims, earlier_claims, cull >>

\* One iteration of the display-list loop of cull_tiles: a whole item, or one draw
\* path of a DrawPaths item.
CullStep ==
    /\ pc = "culling"
    /\ cull.item <= Len(scene.display_list)
    /\ LET item == scene.display_list[cull.item]
       IN  IF item.type = "DrawPaths"
           THEN LET p == IF cull.in_draw_paths THEN cull.draw_path_index ELSE item.start_index
                IN  IF p >= item.end_index
                    THEN /\ cull' = [cull EXCEPT !.item = @ + 1, !.in_draw_paths = FALSE]
                         /\ pc' = pc
                    ELSE LET r == CullDrawPath(cull, built_draw_paths[p])
                         IN  /\ pc' = IF r.panicked THEN "panicked" ELSE pc
                             /\ cull' = IF p + 1 >= item.end_index
                                        THEN [r.c EXCEPT !.item = @ + 1, !.in_draw_paths = FALSE,
                                                         !.draw_path_index = p]
                                        ELSE [r.c EXCEPT !.in_draw_paths = TRUE,
                                                         !.draw_path_index = p + 1]
           ELSE LET r == CullItem(cull, item)
                IN  /\ pc' = IF r.panicked THEN "panicked" ELSE pc
                    /\ cull' = [r.c EXCEPT !.item = @ + 1]
    /\ UNCHANGED << scene, stream, next_alpha_tile_index, next_mask_tile_index, clip_workers,
                    draw_workers, alpha_claims, earlier_claims >>

\* The end of cull_tiles, pack_tiles, and the Finish command of build().
PackAndFinish ==
    /\ pc = "culling"
    /\ cull.item > Len(scene.display_list)
    /\ stream' = stream \o pack_tiles(cull.culled_tiles) \o << [kind |-> "Finish"] >>
    /\ pc' = "done"
    /\ UNCHANGED << scene, next_alpha_tile_index, next_mask_tile_index, clip_workers,
                    draw_workers, alpha_claims, earlier_claims, cull >>

Next ==
    \/ BuildStart
    \/ \E i \in ClipIds : ClipAddFill(i)
    \/ \E i \in ClipIds : ClipClassify(i)
    \/ \E i \in ClipIds : ClipSend(i)
    \/ \E i \in DrawIds : DrawAddFill(i)
    \/ \E i \in DrawIds : DrawClassify(i)
    \/ \E i \in DrawIds : DrawSend(i)
    \/ FinishBuilding
    \/ FinishBuildingAssertFails
    \/ CullStep
    \/ PackAndFinish

Spec == Init /\ [][Next]_vars

(***************************************************************************)
(* A build with index counters that have run far during tiling: other      *)
(* tasks of the same build_vector, whose tile maps are not tracked, have   *)
(* claimed a burst of alpha tile indices (each a first touch of a tile of  *)
(* theirs, with its mask tile) before or between the tracked ones.         *)
(***************************************************************************)
AllocationBursts == { SENTINEL - 1, SENTINEL, U16_MODULUS }

TileEarlierPaths(k) ==
    /\ pc = "tiling"
    /\ earlier_claims = 0
    /\ alpha_claims = {}
    /\ next_alpha_tile_index' = next_alpha_tile_index + k
    /\ next_mask_tile_index' = next_mask_tile_index + k
    /\ earlier_claims' = k
    /\ UNCHANGED << scene, pc, stream, clip_workers, draw_workers, alpha_claims, cull >>

\* One or two draw paths whose Tilers make any add_fill calls, at most MaxFills each.
AllocScenes ==
    { Scene(<< DrawPathsItem(0, 1) >>,
            [i \in {0} |-> DrawPath("SrcOver", 0, 0, "Winding", NoClip,
                                    [fill_requests |-> f, backdrop |-> NoBackdrop])],
            << >>) : f \in SeqsUpTo(FillRequests, MaxFills) }
    \cup
    { Scene(<< DrawPathsItem(0, 2) >>,
            [i \in {0, 1} |-> DrawPath("SrcOver", 0, 0, "Winding", NoClip,
                                       [fill_requests |-> IF i = 0 THEN f ELSE << g >>,
                                        backdrop |-> NoBackdrop])],
            << >>) : f \in SeqsUpTo(FillRequests, MaxFills), g \in FillRequests }

InitAlloc ==
    /\ scene \in AllocScenes
    /\ pc = "new"
    /\ stream = << >>
    /\ next_alpha_tile_index = 0
    /\ next_mask_tile_index = 0
    /\ clip_workers = << >>
    /\ draw_workers = [i \in DOMAIN scene.paths |-> NewWorker(scene.paths[i].fill_rule)]
    /\ alpha_claims = {}
    /\ earlier_claims = 0
    /\ cull = NoCull

NextAlloc ==
    \/ BuildStart
    \/ \E k \in AllocationBursts : TileEarlierPaths(k)
    \/ \E i \in DrawIds : DrawAddFill(i)
    \/ \E i \in DrawIds : DrawClassify(i)
    \/ \E i \in DrawIds : DrawSend(i)
    \/ FinishBuilding
    \/ CullStep
    \/ PackAndFinish

SpecAlloc == InitAlloc /\ [][NextAlloc]_vars

(***************************************************************************)
(* add_fill alone: one draw path whose Tiler hands add_fill one segment,   *)
(* with endpoints on, between and beyond the 4.8 fixed-point grid of the   *)
(* tile.                                                                   *)
(***************************************************************************)
\* Tile-local coordinates, in the units of add_fill's segment.
FillXs ==
    { -Px(1), 0, 1, Px(1) - 1, Px(1), Px(1) + SubSteps + 1, Px(TILE_WIDTH) - SubSteps,
      Px(TILE_WIDTH), Px(TILE_WIDTH + 1) }
FillYs == { -1, 0, Px(2) + 1, Px(TILE_WIDTH) - 1, Px(TILE_WIDTH + 2) }
FillTiles == { ViewTileSeq[2], OutsideTile }

FillScenes ==
    { Scene(<< DrawPathsItem(0, 1) >>,
            [i \in {0} |->
                DrawPath("SrcOver", 0, 0, "Winding", NoClip,
                         [fill_requests |->
                              << [segment |-> << Px(TILE_WIDTH * t[1]) + c[1],
                                                 Px(TILE_WIDTH * t[2]) + c[2],
                                                 Px(TILE_WIDTH * t[1]) + c[3],
                                                 Px(TILE_WIDTH * t[2]) + c[4] >>,
                                  tile_coords |-> t] >>,
                          backdrop |-> NoBackdrop])],
            << >>) :
        t \in FillTiles, c \in FillXs \X FillYs \X FillXs \X FillYs }

InitFill ==
    /\ scene \in FillScenes
    /\ pc = "new"
    /\ stream = << >>
    /\ next_alpha_tile_index = 0
    /\ next_mask_tile_index = 0
    /\ clip_workers = << >>
    /\ draw_workers = [i \in DOMAIN scene.paths |-> NewWorker(scene.paths[i].fill_rule)]
    /\ alpha_claims = {}
    /\ earlier_claims = 0
    /\ cull = NoCull

NextFill ==
    \/ BuildStart
    \/ \E i \in DrawIds : DrawAddFill(i)
    \/ \E i \in DrawIds : DrawClassify(i)
    \/ \E i \in DrawIds : DrawSend(i)

SpecFill == InitFill /\ [][NextFill]_vars

(***************************************************************************)
(* The calls of the Tiler into ObjectBuilder: one draw path whose Tiler     *)
(* makes one add_active_fill or generate_fill_primitives_for_line call.    *)
(* The task's record also holds the add_active_fill call that is running   *)
(* (its segment, the winding left, its tile) and the log of the Tiler's    *)
(* calls with the add_fill calls each of them made.                        *)
(***************************************************************************)
MaxWinding == 2          \* add_active_fill is called with windings of at most this magnitude

\* debug_assert_eq!(TILE_WIDTH, TILE_HEIGHT)
TILE_HEIGHT == TILE_WIDTH

\* Faulty variant of active_fill_segment that ignores the sign of the winding.
active_fill_segment_unsigned(left, right, winding, tile_coords) ==
    LET tile_origin_y == Px(tile_coords[2] * TILE_HEIGHT)
    IN  << left, tile_origin_y, right, tile_origin_y >>

\* The segment add_active_fill hands to add_fill: at the tile's top y, from left
\* to right for a negative winding and from right to left otherwise.
active_fill_segment(left, right, winding, tile_coords) ==
    LET tile_origin_y == Px(tile_coords[2] * TILE_HEIGHT)
    IN  IF winding < 0
        THEN << left, tile_origin_y, right, tile_origin_y >>
        ELSE << right, tile_origin_y, left, tile_origin_y >>

\* i32 division, which truncates toward zero.
TruncDiv(a, b) == IF a >= 0 THEN a \div b ELSE -((-a) \div b)
\* f32::floor(v) as i32 and f32::ceil(v) as i32, v in the units of a segment.
FloorToPixel(v) == v \div Px(1)
CeilToPixel(v) == -((-v) \div Px(1))
\* util::alignup_i32(a, b): a in units of b, rounded up.
alignup_i32(a, b) == -((-a) \div b)

\* LineSegment2F::solve_y_for_x: the y of the segment's line at x.
solve_y_for_x(segment, x) ==
    LET dx == segment[3] - segment[1]
        dy == segment[4] - segment[2]
    IN  IF dx > 0 THEN segment[2] + ((x - segment[1]) * dy) \div dx
        ELSE segment[2] + ((segment[1] - x) * dy) \div (-dx)

\* One add_fill call of a Tiler call: st holds the builder, the shared counter,
\* the indices claimed and the add_fill calls made so far.
add_fill_logged(st, segment, tile_coords) ==
    LET r == add_fill(st.ob, st.next, segment, tile_coords)
    IN  [ st EXCEPT
            !.ob     = r.ob,
            !.next   = r.next,
            !.calls  = Append(@, [segment |-> segment, tile_coords |-> tile_coords]),
            !.claims = IF r.claimed
                       THEN @ \cup { [ owner |-> st.owner, tile |-> tile_coords,
                                       raw |-> st.next,
                                       index |-> r.ob.tiles[tile_coords].alpha_tile_index ] }
                       ELSE @ ]

\* The `for subsegment_tile_x in segment_tile_left..segment_tile_right` loop from
\* column subsegment_tile_x on; segment is what is left of the line.
RECURSIVE FillPrimitivesFrom(_, _, _, _, _, _, _)
FillPrimitivesFrom(st, segment, subsegment_tile_x, segment_tile_right, segment_right, winding, tile_y) ==
    IF subsegment_tile_x >= segment_tile_right THEN st
    ELSE LET subsegment_tile_right == Px((subsegment_tile_x + 1) * TILE_HEIGHT)
             split == subsegment_tile_right < segment_right
             point == << subsegment_tile_right,
                         solve_y_for_x(segment, subsegment_tile_right) >>
             from  == << segment[1], segment[2] >>
             to    == << segment[3], segment[4] >>
             fill_from == IF split /\ winding THEN point ELSE from
             fill_to   == IF split /\ ~winding THEN point ELSE to
             rest  == IF ~split THEN segment
                      ELSE IF ~winding THEN point \o to
                      ELSE from \o point
         IN  FillPrimitivesFrom(
                 add_fill_logged(st, fill_from \o fill_to, << subsegment_tile_x, tile_y >>),
                 rest, subsegment_tile_x + 1, segment_tile_right, segment_right,
                 winding, tile_y)

\* ObjectBuilder::generate_fill_primitives_for_line
generate_fill_primitives_for_line(st, segment, tile_y) ==
    LET winding       == segment[1] > segment[3]
        segment_left  == IF ~winding THEN segment[1] ELSE segment[3]
        segment_right == IF ~winding THEN segment[3] ELSE segment[1]
        segment_tile_left  == TruncDiv(FloorToPixel(segment_left), TILE_WIDTH)
        segment_tile_right == alignup_i32(CeilToPixel(segment_right), TILE_WIDTH)
    IN  FillPrimitivesFrom(st, segment, segment_tile_left, segment_tile_right,
                           segment_right, winding, tile_y)

NoCall == [running |-> FALSE, segment |-> << 0, 0, 0, 0 >>, winding |-> 0,
           tile_coords |-> << 0, 0 >>]

TilerWorker(fill_rule) ==
    [ pos |-> 0, classified |-> FALSE, done |-> FALSE,
      ob |-> NewObjectBuilder(ViewTiles, fill_rule),
      active |-> NoCall, tiler_calls |-> << >> ]

\* The Tiler of task i has made no call yet and has not classified its tiles.
TilerReady(i) ==
    /\ pc = "tiling"
    /\ ~draw_workers[i].classified
    /\ ~draw_workers[i].active.running
    /\ draw_workers[i].tiler_calls = << >>

\* add_active_fill up to its loop.
AddActiveFillCall(i, left, right, winding, tile_coords) ==
    /\ TilerReady(i)
    /\ draw_workers' =
          [draw_workers EXCEPT
             ![i].active = [ running |-> TRUE,
                             segment |-> active_fill_segment(left, right, winding, tile_coords),
                             winding |-> winding,
                             tile_coords |-> tile_coords ],
             ![i].tiler_calls =
                 Append(@, [ op |-> "add_active_fill", left |-> left, right |-> right,
                             winding |-> winding, tile_coords |-> tile_coords,
                             fills_before |-> Len(draw_workers[i].ob.fills),
                             add_fills |-> << >> ])]
    /\ UNCHANGED << scene, pc, stream, next_alpha_tile_index, next_mask_tile_index,
                    clip_workers, alpha_claims, earlier_claims, cull >>

\* One test of `while winding != 0`: an iteration of the loop, or the return.
AddActiveFillLoop(i) ==
    /\ pc = "tiling"
    /\ draw_workers[i].active.running
    /\ LET active == draw_workers[i].active
           st == add_fill_logged([ ob |-> draw_workers[i].ob, next |-> next_alpha_tile_index,
                                   claims |-> alpha_claims, calls |-> << >>,
                                   owner |-> <<"draw", i>> ],
                                 active.segment, active.tile_coords)
           n  == Len(draw_workers[i].tiler_calls)
       IN  IF active.winding # 0
           THEN /\ draw_workers' =
                      [draw_workers EXCEPT
                         ![i].ob = st.ob,
                         ![i].active.winding = IF @ < 0 THEN @ + 1 ELSE @ - 1,
                         ![i].tiler_calls[n].add_fills = @ \o st.calls]
                /\ next_alpha_tile_index' = st.next
                /\ alpha_claims' = st.claims
           ELSE /\ draw_workers' = [draw_workers EXCEPT ![i].active.running = FALSE]
                /\ UNCHANGED << next_alpha_tile_index, alpha_claims >>
    /\ UNCHANGED << scene, pc, stream, next_mask_tile_index, clip_workers, earlier_claims,
                    cull >>

\* A whole generate_fill_primitives_for_line call.
GenerateFillPrimitivesForLine(i, segment, tile_y) ==
    /\ TilerReady(i)
    /\ LET st == generate_fill_primitives_for_line(
                     [ ob |-> draw_workers[i].ob, next |-> next_alpha_tile_index,
                       claims |-> alpha_claims, calls |-> << >>, owner |-> <<"draw", i>> ],
                     segment, tile_y)
       IN  /\ draw_workers' =
                 [draw_workers EXCEPT
                    ![i].ob = st.ob,
                    ![i].tiler_calls =
                        Append(@, [ op |-> "generate_fill_primitives_for_line",
                                    segment |-> segment, tile_y |-> tile_y,
                                    fills_before |-> Len(draw_workers[i].ob.fills),
                                    add_fills |-> st.calls ])]
           /\ next_alpha_tile_index' = st.next
           /\ alpha_claims' = st.claims
    /\ UNCHANGED << scene, pc, stream, next_mask_tile_index, clip_workers, earlier_claims,
                    cull >>

\* The Tiler classifies its tiles when its calls have returned.
TilerClassify(i) ==
    /\ ~draw_workers[i].active.running
    /\ DrawClassify(i)

\* The arguments of the Tiler's calls.
ActiveFillXs == { Px(2), Px(2) + 1, Px(10) }
ActiveFillTiles == { ViewTileSeq[1], OutsideTile }
LineXs == { Px(-8), Px(0), Px(8), Px(16), Px(24), Px(40) }
\* Lines through (from_x, 2 px) of slope 0 or 1/4.
LineSegments ==
    { << x[1], Px(2), x[2], Px(2) + slope * ((x[2] - x[1]) \div 4) >> :
        x \in LineXs \X LineXs, slope \in {0, 1} }

TilerScenes ==
    { Scene(<< DrawPathsItem(0, 1) >>,
            [i \in {0} |-> DrawPath("SrcOver", 0, 0, "Winding", NoClip, EmptyOutline)],
            << >>) }

InitTiler ==
    /\ scene \in TilerScenes
    /\ pc = "new"
    /\ stream = << >>
    /\ next_alpha_tile_index = 0
    /\ next_mask_tile_index = 0
    /\ clip_workers = << >>
    /\ draw_workers = [i \in DOMAIN scene.paths |-> TilerWorker(scene.paths[i].fill_rule)]
    /\ alpha_claims = {}
    /\ earlier_claims = 0
    /\ cull = NoCull

NextTiler ==
    \/ BuildStart
    \/ \E i \in DrawIds : \E left, right \in ActiveFillXs :
          \E winding \in (-MaxWinding)..MaxWinding : \E tile_coords \in ActiveFillTiles :
              AddActiveFillCall(i, left, right, winding, tile_coords)
    \/ \E i \in DrawIds : AddActiveFillLoop(i)
    \/ \E i \in DrawIds : \E segment \in LineSegments :
          GenerateFillPrimitivesForLine(i, segment, 0)
    \/ \E i \in DrawIds : TilerClassify(i)
    \/ \E i \in DrawIds : DrawSend(i)

SpecTiler == InitTiler /\ [][NextTiler]_vars

\* The same with a task that keeps running: the loop of add_active_fill is not
\* suspended for ever.
SpecTilerLive == SpecTiler /\ WF_vars(\E i \in DrawIds : AddActiveFillLoop(i))

(***************************************************************************)
(* Vocabulary of the properties.                                           *)
(***************************************************************************)
CountKind(kind) == Cardinality({ i \in DOMAIN stream : stream[i].kind = kind })
DrawKinds ==
    { "RenderMaskTiles", "DrawSolidTiles", "DrawAlphaTiles", "PushRenderTarget",
      "PopRenderTarget" }
TilingOver == pc \in {"culling", "done", "panicked"}
CulledDisplayList == cull.culled_tiles.display_list
AlphaBatches ==
    { i \in DOMAIN CulledDisplayList : CulledDisplayList[i].kind = "DrawAlphaTiles" }
TileSources(batch) == { batch.tiles[k].object_index : k \in DOMAIN batch.tiles }
Referenced(path_index) ==
    \E i \in DOMAIN scene.display_list :
        /\ scene.display_list[i].type = "DrawPaths"
        /\ scene.display_list[i].start_index <= path_index
        /\ path_index < scene.display_list[i].end_index

\* C1: the command stream of a build() that returns holds exactly one Start, one
\* FlushFills and one Finish (and no build sends a second one); every AddFills
\* precedes FlushFills; every mask, draw and render-target command lies strictly
\* between FlushFills and Finish.
C1_StreamShape ==
    /\ CountKind("Start") <= 1 /\ CountKind("FlushFills") <= 1 /\ CountKind("Finish") <= 1
    /\ pc = "done" =>
          CountKind("Start") = 1 /\ CountKind("FlushFills") = 1 /\ CountKind("Finish") = 1
    /\ \A i, j \in DOMAIN stream :
          stream[i].kind = "AddFills" /\ stream[j].kind = "FlushFills" => i < j
    /\ \A i \in DOMAIN stream :
          stream[i].kind \in DrawKinds =>
             /\ \E j \in 1..(i - 1) : stream[j].kind = "FlushFills"
             /\ \A j \in DOMAIN stream : stream[j].kind = "Finish" => i < j

C1_Witness ==
    /\ pc = "done"
    /\ CountKind("AddFills") >= 2
    /\ CountKind("RenderMaskTiles") >= 1
    /\ CountKind("DrawAlphaTiles") >= 1
    /\ CountKind("PushRenderTarget") >= 1

\* C2: the listener sees Start first, then the paint commands, then the AddFills,
\* then FlushFills, then the RenderMaskTiles, then the replayed culled display
\* list, then Finish last; no command of a later phase precedes one of an earlier.
PhaseOf(command) ==
    CASE command.kind = "Start"           -> 0
      [] command.kind = "PaintSetup"      -> 1
      [] command.kind = "AddFills"        -> 2
      [] command.kind = "FlushFills"      -> 3
      [] command.kind = "RenderMaskTiles" -> 4
      [] command.kind \in DrawKinds \ {"RenderMaskTiles"} -> 5
      [] command.kind = "Finish"          -> 6

C2_PhaseOrder ==
    /\ stream # << >> => stream[1].kind = "Start"
    /\ \A i, j \in DOMAIN stream : i < j => PhaseOf(stream[i]) <= PhaseOf(stream[j])
    /\ \A i \in DOMAIN stream : stream[i].kind = "Finish" => i = Len(stream)
    /\ pc = "done" => Last(stream).kind = "Finish"

C2_Witness ==
    /\ pc = "done"
    /\ \A phase \in 0..6 : \E i \in DOMAIN stream : PhaseOf(stream[i]) = phase

\* C3: under every interleaving of the workers, each clip path and each draw path
\* sends exactly one AddFills (never a second one; one each once tiling is over),
\* also with no fills and also when no DrawPaths item references the path, so the
\* number of AddFills equals the path_count of Start.
AddFillsFrom(owner) ==
    { i \in DOMAIN stream : stream[i].kind = "AddFills" /\ stream[i].from = owner }

C3_OneAddFillsPerPath ==
    /\ \A i \in ClipIds : Cardinality(AddFillsFrom(<<"clip", i>>)) <= 1
    /\ \A i \in DrawIds : Cardinality(AddFillsFrom(<<"draw", i>>)) <= 1
    /\ TilingOver =>
          /\ \A i \in ClipIds : Cardinality(AddFillsFrom(<<"clip", i>>)) = 1
          /\ \A i \in DrawIds : Cardinality(AddFillsFrom(<<"draw", i>>)) = 1
          /\ CountKind("AddFills") = stream[1].path_count

C3_Witness ==
    /\ pc = "done"
    /\ \E i \in DrawIds :
          /\ ~Referenced(i)
          /\ \E k \in AddFillsFrom(<<"draw", i>>) : stream[k].fills = << >>

\* C4 (as amended): in every AlphaTileBatch of the culled display list, every tile
\* comes from a path whose (texture page, blend mode, sampling flags) equal the
\* batch's key; and a batch whose blend mode requires a readable framebuffer holds
\* tiles of at most one path.
BatchKeyPure(batch) ==
    \A p \in TileSources(batch) :
        /\ scene.paths[p].page = batch.color_texture_page
        /\ scene.paths[p].blend_mode = batch.blend_mode
        /\ scene.paths[p].sampling_flags = batch.sampling_flags

C4_BatchKeyPurity ==
    \A i \in AlphaBatches :
        /\ BatchKeyPure(CulledDisplayList[i])
        /\ needs_readable_framebuffer_mode(CulledDisplayList[i].blend_mode) =>
              Cardinality(TileSources(CulledDisplayList[i])) <= 1

\* C4 as claimed: ... a batch whose blend mode requires a readable framebuffer
\* holds tiles of exactly one path.
C4_ExactlyOnePath ==
    \A i \in AlphaBatches :
        /\ BatchKeyPure(CulledDisplayList[i])
        /\ needs_readable_framebuffer_mode(CulledDisplayList[i].blend_mode) =>
              Cardinality(TileSources(CulledDisplayList[i])) = 1

\* Two consecutive batches of one readback key, each with the tile of its own path.
C4_Witness ==
    \E i \in AlphaBatches :
        /\ i + 1 \in AlphaBatches
        /\ needs_readable_framebuffer_mode(CulledDisplayList[i].blend_mode)
        /\ CulledDisplayList[i].blend_mode = CulledDisplayList[i + 1].blend_mode
        /\ CulledDisplayList[i].color_texture_page = CulledDisplayList[i + 1].color_texture_page
        /\ CulledDisplayList[i].sampling_flags = CulledDisplayList[i + 1].sampling_flags
        /\ TileSources(CulledDisplayList[i]) = {0}
        /\ TileSources(CulledDisplayList[i + 1]) = {1}

\* C5: when Pass B processes a draw path (and does not panic), it appends the
\* path's retained alpha tiles to the last item of the culled display list if and
\* only if that item is an AlphaTileBatch with the path's (texture page, blend
\* mode, sampling flags) and a blend mode that needs no readable framebuffer;
\* otherwise it pushes a new AlphaTileBatch with the path's key holding exactly
\* those tiles (none, when the path retains none).
CullingPath ==
    /\ pc = "culling"
    /\ cull.item <= Len(scene.display_list)
    /\ scene.display_list[cull.item].type = "DrawPaths"
    /\ (IF cull.in_draw_paths THEN cull.draw_path_index
        ELSE scene.display_list[cull.item].start_index) < scene.display_list[cull.item].end_index

CurrentPath ==
    IF cull.in_draw_paths THEN cull.draw_path_index
    ELSE scene.display_list[cull.item].start_index

C5_BatchingRule ==
    [][ (CullingPath /\ pc' = "culling") =>
          LET path   == scene.paths[CurrentPath]
              before == CulledDisplayList
              after  == cull'.culled_tiles.display_list
              kept   == RetainedAlphaTiles(Last(cull.layer_z_buffers_stack),
                                           draw_workers[CurrentPath].ob.alpha_tiles,
                                           cull.current_depth)
              reuse  == /\ before # << >>
                        /\ Last(before).kind = "DrawAlphaTiles"
                        /\ Last(before).color_texture_page = path.page
                        /\ Last(before).blend_mode = path.blend_mode
                        /\ Last(before).sampling_flags = path.sampling_flags
                        /\ ~needs_readable_framebuffer_mode(path.blend_mode)
          IN  IF reuse
              THEN after = [before EXCEPT ![Len(before)].tiles = @ \o kept]
              ELSE after = Append(before, [ kind               |-> "DrawAlphaTiles",
                                            tiles              |-> kept,
                                            color_texture_page |-> path.page,
                                            blend_mode         |-> path.blend_mode,
                                            sampling_flags     |-> path.sampling_flags ])
      ]_vars

\* Pass B is under way and its last batch holds the tiles of two paths.
C5_Witness ==
    /\ pc = "culling"
    /\ CulledDisplayList # << >>
    /\ Last(CulledDisplayList).kind = "DrawAlphaTiles"
    /\ Cardinality(TileSources(Last(CulledDisplayList))) = 2

(***************************************************************************)
(* Layers, as the display list defines them: PushRenderTarget opens a      *)
(* layer, PopRenderTarget returns to the enclosing one (and does nothing   *)
(* at the root), and every draw path and DrawRenderTarget is one entity,   *)
(* numbered from 0 in display-list order, drawn in the layer open at it.   *)
(***************************************************************************)
RootLayer == << >>

RECURSIVE EntitiesFrom(_, _, _, _)
EntitiesFrom(display_list, i, open_layers, pushes) ==
    IF i > Len(display_list) THEN << >>
    ELSE LET item == display_list[i]
             top  == IF open_layers = << >> THEN RootLayer ELSE << Last(open_layers) >>
         IN  CASE item.type = "PushRenderTarget" ->
                    EntitiesFrom(display_list, i + 1, Append(open_layers, pushes + 1), pushes + 1)
               [] item.type = "PopRenderTarget" ->
                    EntitiesFrom(display_list, i + 1,
                                 IF open_layers = << >> THEN open_layers ELSE Front(open_layers),
                                 pushes)
               [] item.type = "DrawRenderTarget" ->
                    << [is_path |-> FALSE, path |-> 0, layer |-> top] >>
                    \o EntitiesFrom(display_list, i + 1, open_layers, pushes)
               [] item.type = "DrawPaths" ->
                    [k \in 1..(item.end_index - item.start_index) |->
                        [is_path |-> TRUE, path |-> item.start_index + k - 1, layer |-> top]]
                    \o EntitiesFrom(display_list, i + 1, open_layers, pushes)

Entities == EntitiesFrom(scene.display_list, 1, << >>, 0)

\* A later entity of the same layer is a path with an occluding blend mode that
\* has a solid tile at the coordinate.
OccludedAfter(entity, coords) ==
    \E later \in (entity + 2)..Len(Entities) :
        /\ Entities[later].is_path
        /\ Entities[later].layer = Entities[entity + 1].layer
        /\ occludes_backdrop(scene.paths[Entities[later].path].blend_mode)
        /\ \E k \in DOMAIN draw_workers[Entities[later].path].ob.solid_tiles :
              draw_workers[Entities[later].path].ob.solid_tiles[k].coords = coords

\* The entity an emitted tile belongs to: Pass A recorded a z-buffer tile at the
\* entity's number, Pass B tested a tile at the entity's number plus one.
EntityOfSolidTile(tile) ==
    IF "recorded_at" \in DOMAIN tile THEN tile.recorded_at ELSE tile.tested_at - 1

\* C6: in the stream of a build() that returns, no alpha tile and no solid tile is
\* at a coordinate where a later path of the same layer has a solid tile with a
\* blend mode that occludes the backdrop.
C6_Occlusion ==
    pc = "done" =>
       \A i \in DOMAIN stream :
          /\ stream[i].kind = "DrawAlphaTiles" =>
                \A k \in DOMAIN stream[i].tiles :
                    ~OccludedAfter(stream[i].tiles[k].tested_at - 1,
                                   stream[i].tiles[k].tile_position)
          /\ stream[i].kind = "DrawSolidTiles" =>
                \A k \in DOMAIN stream[i].tiles :
                    ~OccludedAfter(EntityOfSolidTile(stream[i].tiles[k]),
                                   stream[i].tiles[k].coords)

\* A build has returned in which some path was tested for occlusion against a
\* z-buffer cell written by another path.
C6_Witness ==
    /\ pc = "done"
    /\ \E p, q \in DrawIds :
          /\ p # q
          /\ draw_workers[p].ob.alpha_tiles # << >>
          /\ draw_workers[q].ob.solid_tiles # << >>
          /\ draw_workers[p].ob.alpha_tiles[1].tile_position
                = draw_workers[q].ob.solid_tiles[1].coords

\* C7: every alpha tile index is assigned to at most one (path, tile) pair of the
\* build, the pairs of the untracked earlier tasks included (they hold the
\* indices raw % 2^16 for raw < earlier_claims).
C7_AlphaIndexUnique ==
    /\ \A a, b \in alpha_claims :
          a.index = b.index => (a.owner = b.owner /\ a.tile = b.tile)
    /\ \A a \in alpha_claims :
          ~(earlier_claims >= U16_MODULUS \/ a.index < earlier_claims)

\* C8: within one path a tile claims an index at most once, and all fills of the
\* path on one tile carry the same alpha_tile_index.
C8_AssignedOnce ==
    /\ \A a, b \in alpha_claims : (a.owner = b.owner /\ a.tile = b.tile) => a = b
    /\ \A i \in DrawIds :
          \A f, g \in DOMAIN draw_workers[i].ob.fills :
              draw_workers[i].ob.fills[f].tile_coords = draw_workers[i].ob.fills[g].tile_coords
                 => draw_workers[i].ob.fills[f].alpha_tile_index
                       = draw_workers[i].ob.fills[g].alpha_tile_index

\* C9: no allocation returns a counter value above u16::MAX reduced modulo 2^16
\* while the build goes on: every index handed out is the counter value itself,
\* and a counter that has been read above u16::MAX has failed the build.
C9_NoSilentWrap ==
    /\ \A a \in alpha_claims : a.index = a.raw
    /\ pc # "panicked" =>
          /\ next_alpha_tile_index <= U16_MODULUS
          /\ next_mask_tile_index <= U16_MODULUS

\* C10: the needs_readable_framebuffer field of Start is true if and only if some
\* DrawPaths item outside every PushRenderTarget/PopRenderTarget scope has a path
\* in its range whose blend mode requires reading the framebuffer.
RECURSIVE OpenScopes(_, _)
OpenScopes(display_list, i) ==
    IF i = 1 THEN 0
    ELSE LET before == OpenScopes(display_list, i - 1)
         IN  CASE display_list[i - 1].type = "PushRenderTarget" -> before + 1
               [] display_list[i - 1].type = "PopRenderTarget"  -> Max(before - 1, 0)
               [] OTHER -> before

C10_ReadableFramebufferFlag ==
    stream # << >> =>
       (stream[1].needs_readable_framebuffer
          <=> \E i \in DOMAIN scene.display_list :
                 /\ scene.display_list[i].type = "DrawPaths"
                 /\ OpenScopes(scene.display_list, i) = 0
                 /\ \E p \in scene.display_list[i].start_index
                               ..(scene.display_list[i].end_index - 1) :
                        needs_readable_framebuffer_mode(scene.paths[p].blend_mode))

(***************************************************************************)
(* Render-target nesting of a display list.                                *)
(***************************************************************************)
PushCount(display_list, n) ==
    Cardinality({ i \in 1..n : display_list[i].type = "PushRenderTarget" })
PopCount(display_list, n) ==
    Cardinality({ i \in 1..n : display_list[i].type = "PopRenderTarget" })

\* Every PopRenderTarget closes an earlier PushRenderTarget and none stays open.
ProperlyNested(display_list) ==
    /\ \A n \in 0..Len(display_list) : PopCount(display_list, n) <= PushCount(display_list, n)
    /\ PopCount(display_list, Len(display_list)) = PushCount(display_list, Len(display_list))

\* C11: for a properly nested display list, Pass A does not find its index stack
\* empty at a DrawPaths item and ends with a stack of exactly one entry; the build
\* then goes past Pass A without panicking there.
C11_PassAStack ==
    (TilingOver /\ ProperlyNested(scene.display_list)) =>
        /\ ~PassA.panicked
        /\ Len(PassA.stack) = 1
        /\ pc # "panicked"

\* Pass A has run over a properly nested list with a path drawn inside a scope.
C11_Witness ==
    /\ TilingOver
    /\ ProperlyNested(scene.display_list)
    /\ \E i \in DOMAIN scene.display_list :
          /\ scene.display_list[i].type = "DrawPaths"
          /\ PushCount(scene.display_list, i) > PopCount(scene.display_list, i)

\* The render-target markers of a sequence of commands or display items, as
\* <<"push", id>> and <<"pop">>.
RECURSIVE StreamMarkers(_)
StreamMarkers(commands) ==
    IF commands = << >> THEN << >>
    ELSE (CASE Head(commands).kind = "PushRenderTarget" ->
                 << <<"push", Head(commands).render_target>> >>
            [] Head(commands).kind = "PopRenderTarget" -> << <<"pop">> >>
            [] OTHER -> << >>)
         \o StreamMarkers(Tail(commands))

RECURSIVE ListMarkers(_)
ListMarkers(display_list) ==
    IF display_list = << >> THEN << >>
    ELSE (CASE Head(display_list).type = "PushRenderTarget" ->
                 << <<"push", Head(display_list).render_target>> >>
            [] Head(display_list).type = "PopRenderTarget" -> << <<"pop">> >>
            [] OTHER -> << >>)
         \o ListMarkers(Tail(display_list))

MarkerDepth(markers, n) ==
    Cardinality({ i \in 1..n : markers[i][1] = "push" })
      - Cardinality({ i \in 1..n : markers[i][1] = "pop" })

\* C12: the PushRenderTarget/PopRenderTarget commands of the stream of a build()
\* that returns are, in order and ids, the push/pop items of the display list; no
\* prefix of any stream has more pops than pushes; and at Finish the nesting
\* depth is zero.
C12_BalancedMarkers ==
    /\ pc = "done" => StreamMarkers(stream) = ListMarkers(scene.display_list)
    /\ \A n \in 0..Len(StreamMarkers(stream)) : MarkerDepth(StreamMarkers(stream), n) >= 0
    /\ pc = "done" => MarkerDepth(StreamMarkers(stream), Len(StreamMarkers(stream))) = 0

\* C13: a display list that is not properly nested is detected by the time Pass A
\* ends: the build fails there and Pass B builds no culled display list.
C13_ImbalanceDetected ==
    (TilingOver /\ ~ProperlyNested(scene.display_list)) =>
        /\ pc = "panicked"
        /\ cull = NoCull

\* C14: a build() that fails has sent no command to the listener.
C14_NoPartialStream ==
    pc = "panicked" => stream = << >>

(***************************************************************************)
(* Render-target scopes.                                                   *)
(***************************************************************************)
IsMarkerItem(item) == item.type \in {"PushRenderTarget", "PopRenderTarget"}
IsMarkerCommand(command) == command.kind \in {"PushRenderTarget", "PopRenderTarget"}
ItemMarkersUpTo(n) ==
    Cardinality({ k \in 1..n : IsMarkerItem(scene.display_list[k]) })
CommandMarkersUpTo(n) ==
    Cardinality({ k \in 1..n : IsMarkerCommand(stream[k]) })

\* The scopes of the display list that hold DrawPaths items only: <<i, j>> with
\* the PushRenderTarget at i and its PopRenderTarget at j.
PathScopes ==
    { ij \in (DOMAIN scene.display_list) \X (DOMAIN scene.display_list) :
        /\ ij[1] < ij[2]
        /\ scene.display_list[ij[1]].type = "PushRenderTarget"
        /\ scene.display_list[ij[2]].type = "PopRenderTarget"
        /\ \A k \in (ij[1] + 1)..(ij[2] - 1) : scene.display_list[k].type = "DrawPaths" }

ScopePaths(i, j) ==
    UNION { scene.display_list[k].start_index .. (scene.display_list[k].end_index - 1) :
              k \in (i + 1)..(j - 1) }

SolidCoordsOf(paths) ==
    UNION { { draw_workers[p].ob.solid_tiles[k].coords :
                k \in DOMAIN draw_workers[p].ob.solid_tiles } : p \in paths }

\* Commands a .. b of the stream are the scope <<i, j>>: the marker of the push,
\* the layer's solid tile batches, the alpha tile batches of the scope's paths
\* (at least one when the scope has a path, each path's key among them), the pop.
ScopeEmittedAt(i, j, a, b) ==
    /\ a < b
    /\ stream[a].kind = "PushRenderTarget"
    /\ stream[a].render_target = scene.display_list[i].render_target
    /\ CommandMarkersUpTo(a) = ItemMarkersUpTo(i)
    /\ stream[b].kind = "PopRenderTarget"
    /\ CommandMarkersUpTo(b) = ItemMarkersUpTo(j)
    /\ \E m \in a..(b - 1) :
          /\ \A q \in (a + 1)..m :
                stream[q].kind = "DrawSolidTiles" /\ stream[q].effects = "none"
          /\ UNION { { stream[q].tiles[k].coords : k \in DOMAIN stream[q].tiles } :
                       q \in (a + 1)..m } = SolidCoordsOf(ScopePaths(i, j))
          /\ \A q \in (m + 1)..(b - 1) :
                /\ stream[q].kind = "DrawAlphaTiles"
                /\ TileSources(stream[q]) \subseteq ScopePaths(i, j)
          /\ ScopePaths(i, j) # {} => m < b - 1
          /\ \A p \in ScopePaths(i, j) :
                \E q \in (m + 1)..(b - 1) :
                    /\ stream[q].blend_mode = scene.paths[p].blend_mode
                    /\ stream[q].color_texture_page = scene.paths[p].page
                    /\ stream[q].sampling_flags = scene.paths[p].sampling_flags

\* C15: in the stream of a build() that returns, every scope PushRenderTarget(R),
\* DrawPaths..., PopRenderTarget of the display list appears as PushRenderTarget(R),
\* the layer's DrawSolidTiles batches, the DrawAlphaTiles batches of the scope's
\* paths, PopRenderTarget; and every DrawRenderTarget{R, effects} after the scope
\* appears after that PopRenderTarget as a DrawSolidTiles with those effects.
C15_ScopeSequence ==
    pc = "done" =>
       \A ij \in PathScopes :
          \E a, b \in DOMAIN stream :
             /\ ScopeEmittedAt(ij[1], ij[2], a, b)
             /\ \A k \in (ij[2] + 1)..Len(scene.display_list) :
                   scene.display_list[k].type = "DrawRenderTarget" =>
                      \E q \in (b + 1)..Len(stream) :
                         /\ stream[q].kind = "DrawSolidTiles"
                         /\ stream[q].effects = scene.display_list[k].effects
                         /\ stream[q].color_texture_page
                               = RenderTargetPage(scene.display_list[k].render_target)

\* The round trip has been built: a scope with a solid and an alpha path, then a
\* DrawRenderTarget of its render target.
C15_Witness ==
    /\ pc = "done"
    /\ \E ij \in PathScopes :
          /\ SolidCoordsOf(ScopePaths(ij[1], ij[2])) # {}
          /\ \E p \in ScopePaths(ij[1], ij[2]) : draw_workers[p].ob.alpha_tiles # << >>
          /\ ij[2] < Len(scene.display_list)
          /\ scene.display_list[ij[2] + 1].type = "DrawRenderTarget"
          /\ scene.display_list[ij[2] + 1].effects = "shadow"

(***************************************************************************)
(* The empty scene.                                                        *)
(***************************************************************************)
EmptyScene == scene.display_list = << >> /\ DrawIds = {} /\ ClipIds = {}
NotPaintSetup(command) == command.kind # "PaintSetup"

\* C16: for the empty scene build() does not fail, and the stream of the build
\* that has returned is, paint setup aside, Start with path_count 0, FlushFills,
\* Finish and nothing else.
C16_EmptyScene ==
    EmptyScene =>
       /\ pc # "panicked"
       /\ pc = "done" =>
             LET commands == SelectSeq(stream, NotPaintSetup)
             IN  /\ Len(commands) = 3
                 /\ commands[1].kind = "Start" /\ commands[1].path_count = 0
                 /\ commands[2].kind = "FlushFills"
                 /\ commands[3].kind = "Finish"

C16_Witness == EmptyScene /\ pc = "done"

PushedFills ==
    UNION { { draw_workers[i].ob.fills[k] : k \in DOMAIN draw_workers[i].ob.fills } :
              i \in DrawIds }

\* Lane n (1 from_x, 2 from_y, 3 to_x, 4 to_y) of a fill's segment, relative to the
\* upper left corner of its tile, before the clamp, in the units of the segment.
LocalCoordinate(fill, n) ==
    fill.segment[n] - Px(TILE_WIDTH * fill.tile_coords[IF n \in {1, 3} THEN 1 ELSE 2])

\* The same lane in 4.8 fixed point after the clamp: what add_fill packs.
FixedPoint(fill, n) ==
    IF LocalCoordinate(fill, n) <= 0 THEN 0
    ELSE IF LocalCoordinate(fill, n) >= (TILE_WIDTH * 256 - 1) * SubSteps
         THEN TILE_WIDTH * 256 - 1
         ELSE LocalCoordinate(fill, n) \div SubSteps

\* C18: in every fill that add_fill pushes, px.from is the low nibble of
\* from_x div 256 with the low nibble of from_y div 256 above it, px.to likewise
\* of to_x and to_y, and the sub-pixel bytes are from_x, from_y, to_x, to_y mod 256.
C18_FillPacking ==
    \A fill \in PushedFills :
        /\ FixedPoint(fill, 1) # FixedPoint(fill, 3)
        /\ \A n \in 1..4 : FixedPoint(fill, n) \in 0..(TILE_WIDTH * 256 - 1)
        /\ fill.px.from = ((FixedPoint(fill, 1) \div 256) % 16)
                             + 16 * ((FixedPoint(fill, 2) \div 256) % 16)
        /\ fill.px.to = ((FixedPoint(fill, 3) \div 256) % 16)
                           + 16 * ((FixedPoint(fill, 4) \div 256) % 16)
        /\ fill.subpx.from_x = FixedPoint(fill, 1) % 256
        /\ fill.subpx.from_y = FixedPoint(fill, 2) % 256
        /\ fill.subpx.to_x = FixedPoint(fill, 3) % 256
        /\ fill.subpx.to_y = FixedPoint(fill, 4) % 256

\* A fill whose endpoints differ in every nibble and sub-pixel byte was pushed.
C18_Witness ==
    \E fill \in PushedFills :
        /\ fill.px.from % 16 # fill.px.to % 16
        /\ fill.px.from \div 16 # fill.px.to \div 16
        /\ fill.px.from % 16 # fill.px.from \div 16
        /\ fill.subpx.from_x # fill.subpx.to_x
        /\ fill.subpx.from_y # fill.subpx.to_y

\* Lane n of a pushed fill decoded: pixel nibble * 256 + sub-pixel byte, in 1/256
\* pixel.
Decoded(fill, n) ==
    CASE n = 1 -> (fill.px.from % 16) * 256 + fill.subpx.from_x
      [] n = 2 -> (fill.px.from \div 16) * 256 + fill.subpx.from_y
      [] n = 3 -> (fill.px.to % 16) * 256 + fill.subpx.to_x
      [] n = 4 -> (fill.px.to \div 16) * 256 + fill.subpx.to_y

Abs(v) == IF v < 0 THEN -v ELSE v

\* C19 (as amended): decoding a lane of a pushed fill reconstructs the pre-clamp
\* tile-local coordinate within 1/256 pixel when that coordinate lies in the tile
\* (from 0 to TILE_WIDTH pixels, both included); a coordinate below 0 decodes to 0
\* and one above TILE_WIDTH to TILE_WIDTH - 1/256 pixel.
C19_RoundTripInTile ==
    \A fill \in PushedFills : \A n \in 1..4 :
        /\ LocalCoordinate(fill, n) \in 0..Px(TILE_WIDTH) =>
              Abs(Decoded(fill, n) * SubSteps - LocalCoordinate(fill, n)) <= SubSteps
        /\ LocalCoordinate(fill, n) < 0 => Decoded(fill, n) = 0
        /\ LocalCoordinate(fill, n) > Px(TILE_WIDTH) =>
              Decoded(fill, n) = TILE_WIDTH * 256 - 1

\* C19 as claimed: decoding reconstructs every pre-clamp coordinate within 1/256
\* pixel.
C19_RoundTripAlways ==
    \A fill \in PushedFills : \A n \in 1..4 :
        Abs(Decoded(fill, n) * SubSteps - LocalCoordinate(fill, n)) <= SubSteps

\* A fill was pushed with a lane strictly between two fixed-point values and a
\* lane on the far edge of the tile.
C19_Witness ==
    \E fill \in PushedFills :
        /\ \E n \in 1..4 : /\ LocalCoordinate(fill, n) \in 0..Px(TILE_WIDTH)
                           /\ LocalCoordinate(fill, n) % SubSteps # 0
        /\ \E n \in 1..4 : LocalCoordinate(fill, n) = Px(TILE_WIDTH)

(***************************************************************************)
(* The build in which the tiling tasks run one after the other, in path    *)
(* order, after the claims of the untracked tasks: one of the              *)
(* interleavings, with which every other one is compared.                  *)
(***************************************************************************)
RECURSIVE FillAllFrom(_, _, _, _)
FillAllFrom(ob, next, requests, k) ==
    IF k > Len(requests) THEN [ob |-> ob, next |-> next]
    ELSE LET r == add_fill(ob, next, requests[k].segment, requests[k].tile_coords)
         IN  FillAllFrom(r.ob, r.next, requests, k + 1)

\* The task of one path run from the alpha tile counter value `next`.
TiledFrom(outline, fill_rule, object_index, is_draw, next) ==
    LET filled == FillAllFrom(NewObjectBuilder(ViewTiles, fill_rule), next,
                              outline.fill_requests, 1)
    IN  [ ob   |-> ClassifyTilesFrom(filled.ob, 0, 1, outline.backdrop, object_index,
                                     is_draw).ob,
          next |-> filled.next ]

RECURSIVE ClipTiledInOrder(_)
ClipTiledInOrder(i) ==
    TiledFrom(scene.clip_paths[i].outline, scene.clip_paths[i].fill_rule, i, FALSE,
              IF i = 0 THEN earlier_claims ELSE ClipTiledInOrder(i - 1).next)

RECURSIVE DrawTiledInOrder(_)
DrawTiledInOrder(i) ==
    TiledFrom(scene.paths[i].outline, scene.paths[i].fill_rule, i, TRUE,
              IF i > 0 THEN DrawTiledInOrder(i - 1).next
              ELSE IF NumClipPaths > 0 THEN ClipTiledInOrder(NumClipPaths - 1).next
              ELSE earlier_claims)

ClipPathsInOrder == [i \in ClipIds |-> ClipTiledInOrder(i).ob]
DrawPathsInOrder ==
    [i \in DrawIds |-> [ path               |-> DrawTiledInOrder(i).ob,
                         blend_mode         |-> scene.paths[i].blend_mode,
                         color_texture_page |-> scene.paths[i].page,
                         sampling_flags     |-> scene.paths[i].sampling_flags ]]

RECURSIVE CullPathsFrom(_, _, _, _)
CullPathsFrom(c, built, p, end_index) ==
    IF p >= end_index THEN [c |-> c, panicked |-> FALSE]
    ELSE LET r == CullDrawPath(c, built[p])
         IN  IF r.panicked THEN r ELSE CullPathsFrom(r.c, built, p + 1, end_index)

RECURSIVE CullItemsFrom(_, _, _)
CullItemsFrom(c, built, i) ==
    IF i > Len(scene.display_list) THEN [c |-> c, panicked |-> FALSE]
    ELSE LET item == scene.display_list[i]
             r    == IF item.type = "DrawPaths"
                     THEN CullPathsFrom(c, built, item.start_index, item.end_index)
                     ELSE CullItem(c, item)
         IN  IF r.panicked THEN r ELSE CullItemsFrom(r.c, built, i + 1)

\* The commands after FlushFills of the build whose tasks ran in path order.
CommandsInOrder ==
    LET pass_a == build_solid_tiles(scene.display_list, scene.paths, DrawPathsInOrder)
    IN  pack_tiles(CullItemsFrom(CullStart(pass_a.z_buffers, ClipPathsInOrder),
                                 DrawPathsInOrder, 1).c.culled_tiles)
        \o << [kind |-> "Finish"] >>

\* A command without its tile indices: its kind, its batch key and the
\* coordinates of its tiles.
Observable(command) ==
    CASE command.kind = "DrawAlphaTiles" ->
           << command.kind, command.color_texture_page, command.blend_mode,
              command.sampling_flags,
              [k \in DOMAIN command.tiles |-> command.tiles[k].tile_position] >>
      [] command.kind = "DrawSolidTiles" ->
           << command.kind, command.color_texture_page, command.sampling_flags,
              command.effects,
              [k \in DOMAIN command.tiles |-> command.tiles[k].coords] >>
      [] command.kind = "RenderMaskTiles" ->
           << command.kind, command.fill_rule,
              [k \in DOMAIN command.tiles |-> command.tiles[k].object_index] >>
      [] command.kind = "PushRenderTarget" -> << command.kind, command.render_target >>
      [] OTHER -> << command.kind >>

ObservableCommands(commands) == [k \in DOMAIN commands |-> Observable(commands[k])]

\* A built path without its tile indices.
ObservablePath(built_path) ==
    [ fills |-> [k \in DOMAIN built_path.fills |->
                    << built_path.fills[k].px, built_path.fills[k].subpx,
                       built_path.fills[k].tile_coords >>],
      alpha_tiles |-> [k \in DOMAIN built_path.alpha_tiles |->
                          built_path.alpha_tiles[k].tile_position],
      solid_tiles |-> built_path.solid_tiles,
      mask_tiles  |-> Len(built_path.mask_tiles) ]

AfterFlushFills ==
    SubSeq(stream,
           1 + (CHOOSE k \in DOMAIN stream : stream[k].kind = "FlushFills"),
           Len(stream))

RECURSIVE EntityItemsFrom(_, _)
EntityItemsFrom(display_list, i) ==
    IF i > Len(display_list) THEN << >>
    ELSE LET item == display_list[i]
         IN  (CASE item.type = "DrawRenderTarget" -> << i >>
                [] item.type = "DrawPaths" ->
                     [k \in 1..(item.end_index - item.start_index) |-> i]
                [] OTHER -> << >>)
             \o EntityItemsFrom(display_list, i + 1)

EntityItems == EntityItemsFrom(scene.display_list, 1)

\* The display items Pass B has gone through.
ItemsCulled == 1..(cull.item - 1)
CulledEntries(kind) ==
    { k \in DOMAIN CulledDisplayList : CulledDisplayList[k].kind = kind }
ItemsOfType(type) == { k \in ItemsCulled : scene.display_list[k].type = type }

CullingRenderTarget ==
    /\ pc = "culling"
    /\ cull.item <= Len(scene.display_list)
    /\ scene.display_list[cull.item].type = "DrawRenderTarget"

\* C22: when Pass B goes through a DrawRenderTarget{id, effects} item (and does not
\* panic), it appends exactly one solid tile batch to the culled display list,
\* with those effects and the render target's page, whose tiles are the view
\* tiles, in row-major order, that pass the test against the Z-buffer on top of
\* the layer stack at the current depth (none, when none passes); and it
\* increments the depth by one.
C22_DrawRenderTargetBatch ==
    [][ (CullingRenderTarget /\ pc' = "culling") =>
          LET item   == scene.display_list[cull.item]
              before == CulledDisplayList
              after  == cull'.culled_tiles.display_list
              Passes(t) == ZTest(Last(cull.layer_z_buffers_stack), t, cull.current_depth)
          IN  /\ Len(after) = Len(before) + 1
              /\ SubSeq(after, 1, Len(before)) = before
              /\ Last(after).kind = "DrawSolidTiles"
              /\ Last(after).effects = item.effects
              /\ Last(after).color_texture_page = RenderTargetPage(item.render_target)
              /\ [k \in DOMAIN Last(after).tiles |-> Last(after).tiles[k].coords]
                    = SelectSeq(ViewTileSeq, Passes)
              /\ cull'.current_depth = cull.current_depth + 1
      ]_vars

\* A build has returned whose culled display list holds a render target batch
\* without tiles and one with every tile of the view.
C22_Witness ==
    /\ pc = "done"
    /\ \E i, j \in CulledEntries("DrawSolidTiles") :
          /\ CulledDisplayList[i].effects # "none" /\ CulledDisplayList[i].tiles = << >>
          /\ CulledDisplayList[j].effects # "none"
          /\ Len(CulledDisplayList[j].tiles) = Len(ViewTileSeq)

(***************************************************************************)
(* Mask tile pools.                                                        *)
(***************************************************************************)
\* The mask tiles of the clip paths i .. of a fill rule, in index order.
RECURSIVE ClipMaskTilesFrom(_, _)
ClipMaskTilesFrom(i, fill_rule) ==
    IF i \notin ClipIds THEN << >>
    ELSE (IF scene.clip_paths[i].fill_rule = fill_rule
          THEN clip_workers[i].ob.mask_tiles ELSE << >>)
         \o ClipMaskTilesFrom(i + 1, fill_rule)

\* The mask tiles of the draw paths of a fill rule that the entities k .. are, in
\* the order the display list visits them.
RECURSIVE VisitedMaskTilesFrom(_, _)
VisitedMaskTilesFrom(k, fill_rule) ==
    IF k > Len(Entities) THEN << >>
    ELSE (IF Entities[k].is_path /\ scene.paths[Entities[k].path].fill_rule = fill_rule
          THEN draw_workers[Entities[k].path].ob.mask_tiles ELSE << >>)
         \o VisitedMaskTilesFrom(k + 1, fill_rule)

MaskPool(fill_rule) == ClipMaskTilesFrom(0, fill_rule) \o VisitedMaskTilesFrom(1, fill_rule)

IsRenderMaskTiles(command) == command.kind = "RenderMaskTiles"

\* C23: the RenderMaskTiles commands of a build() that returns are the Winding
\* pool, if it is not empty, then the EvenOdd pool, if it is not empty, and no
\* other; a pool holds the mask tiles of the clip paths of its fill rule in index
\* order, then those of the draw paths of its fill rule in the order the DrawPaths
\* items visit them, so a draw path no item references adds none.
C23_MaskPools ==
    pc = "done" =>
       SelectSeq(stream, IsRenderMaskTiles)
          = (IF MaskPool("Winding") # << >>
             THEN << [kind |-> "RenderMaskTiles", tiles |-> MaskPool("Winding"),
                      fill_rule |-> "Winding"] >>
             ELSE << >>)
            \o
            (IF MaskPool("EvenOdd") # << >>
             THEN << [kind |-> "RenderMaskTiles", tiles |-> MaskPool("EvenOdd"),
                      fill_rule |-> "EvenOdd"] >>
             ELSE << >>)

\* A build has returned in which a clip path and a draw path of different fill
\* rules each have a mask tile.
C23_Witness ==
    /\ pc = "done"
    /\ Len(SelectSeq(stream, IsRenderMaskTiles)) = 2
    /\ \E i \in ClipIds : clip_workers[i].ob.mask_tiles # << >>
    /\ \E i \in DrawIds : draw_workers[i].ob.mask_tiles # << >>

(***************************************************************************)
(* The hand-over of the Z-buffers from Pass A to Pass B.                   *)
(***************************************************************************)
\* Pass B has started: cull_tiles is past build_solid_tiles.
PassBStarted == TilingOver /\ cull # NoCull
\* Pass B has ended, by returning or by panicking.
PassBEnded == PassBStarted /\ (pc \in {"done", "panicked"} \/ cull.item > Len(scene.display_list))

\* The index stack of Pass A when it reaches display item i.
IndexStackAt(i) ==
    BuildSolidTilesFrom(SubSeq(scene.display_list, 1, i - 1), scene.paths, built_draw_paths,
                        1, << NewZBuffer >>, << 0 >>, 0).stack

\* C24: on every display list on which Pass A completes, Pass A creates one
\* Z-buffer plus one per PushRenderTarget item; what Pass B has not yet taken is
\* always the rest of Pass A's Z-buffers in creation order, so the one it takes at
\* the k-th PushRenderTarget is the one Pass A created there; at every DrawPaths
\* item the top of Pass B's layer stack is the Z-buffer Pass A updated for the
\* item; and when Pass B ends it has taken all of them.
C24_ZBufferHandOver ==
    PassBStarted =>
       LET z_buffers == PassA.z_buffers
           taken     == 1 + PushCount(scene.display_list,
                                      Min(cull.item - 1, Len(scene.display_list)))
       IN  /\ Len(z_buffers) = 1 + PushCount(scene.display_list, Len(scene.display_list))
           /\ taken <= Len(z_buffers)
           /\ cull.remaining_layer_z_buffers
                 = [k \in 1..(Len(z_buffers) - taken) |-> z_buffers[Len(z_buffers) + 1 - k]]
           /\ CullingPath =>
                 /\ cull.layer_z_buffers_stack # << >>
                 /\ Last(cull.layer_z_buffers_stack)
                       = z_buffers[Last(IndexStackAt(cull.item)) + 1]
           /\ PassBEnded => cull.remaining_layer_z_buffers = << >>

\* Pass B is at a DrawPaths item inside a render target whose Z-buffer differs
\* from the root's.
C24_Witness ==
    /\ CullingPath
    /\ Len(cull.layer_z_buffers_stack) = 2
    /\ cull.layer_z_buffers_stack[1] # cull.layer_z_buffers_stack[2]
    /\ cull.layer_z_buffers_stack[1] # NewZBuffer

(***************************************************************************)
(* Depths.  Entity k, counted from 1 in display-list order, is the k-th    *)
(* visited path or DrawRenderTarget.                                       *)
(***************************************************************************)
\* The entities Pass B has gone through.
EntitiesCulled ==
    Cardinality({ k \in DOMAIN EntityItems : EntityItems[k] < cull.item })
      + (IF cull.in_draw_paths
         THEN cull.draw_path_index - scene.display_list[cull.item].start_index
         ELSE 0)

\* C25: Pass A records entity k at depth k - 1 and Pass B tests its tiles at depth
\* k.  Pass A ends at a depth equal to the number of entities and every depth it
\* leaves in a Z-buffer is that of a path with a solid tile there; Pass B's depth
\* is one more than the number of entities it has gone through, every alpha tile
\* it keeps was tested at the number of the visit of its path, and every tile of a
\* render target batch at the number of a DrawRenderTarget.
C25_DepthNumbering ==
    /\ (TilingOver /\ ~PassA.panicked) =>
          /\ PassA.depth = Len(Entities)
          /\ \A z \in DOMAIN PassA.z_buffers : \A t \in ViewTiles :
                PassA.z_buffers[z][t].written =>
                   LET k == PassA.z_buffers[z][t].depth + 1
                   IN  /\ k \in DOMAIN Entities
                       /\ Entities[k].is_path
                       /\ t \in SolidCoordsOf({Entities[k].path})
    /\ pc = "culling" => cull.current_depth = EntitiesCulled + 1
    /\ pc \in {"culling", "done"} =>
          \A i \in DOMAIN CulledDisplayList :
             /\ CulledDisplayList[i].kind = "DrawAlphaTiles" =>
                   \A n \in DOMAIN CulledDisplayList[i].tiles :
                       LET k == CulledDisplayList[i].tiles[n].tested_at
                       IN  /\ k \in DOMAIN Entities
                           /\ Entities[k].is_path
                           /\ Entities[k].path = CulledDisplayList[i].tiles[n].object_index
             /\ (CulledDisplayList[i].kind = "DrawSolidTiles"
                    /\ CulledDisplayList[i].effects # "none") =>
                   \A n \in DOMAIN CulledDisplayList[i].tiles :
                       LET k == CulledDisplayList[i].tiles[n].tested_at
                       IN  /\ k \in DOMAIN Entities
                           /\ ~Entities[k].is_path
                           /\ scene.display_list[EntityItems[k]].effects
                                 = CulledDisplayList[i].effects

\* A build has returned in which Pass A recorded a path behind a DrawRenderTarget
\* and Pass B tested a tile of the second entity or a later one.
C25_Witness ==
    /\ pc = "done"
    /\ \E z \in DOMAIN PassA.z_buffers : \E t \in ViewTiles :
          PassA.z_buffers[z][t].written /\ PassA.z_buffers[z][t].depth >= 1
    /\ \E i \in DOMAIN CulledDisplayList :
          /\ CulledDisplayList[i].kind \in {"DrawAlphaTiles", "DrawSolidTiles"}
          /\ \E n \in DOMAIN CulledDisplayList[i].tiles :
                /\ "tested_at" \in DOMAIN CulledDisplayList[i].tiles[n]
                /\ CulledDisplayList[i].tiles[n].tested_at >= 2

(***************************************************************************)
(* DrawRenderTarget in Pass A.                                             *)
(***************************************************************************)
\* Pass A over the first n display items.
PassAOver(n) ==
    build_solid_tiles(SubSeq(scene.display_list, 1, n), scene.paths, built_draw_paths)

\* A later path of the layer of entity k has a solid tile at the coordinate.
PathCoversLater(k, coords) ==
    \E later \in (k + 1)..Len(Entities) :
        /\ Entities[later].is_path
        /\ Entities[later].layer = Entities[k].layer
        /\ coords \in SolidCoordsOf({Entities[later].path})

EmittedAlphaTile(k, coords) ==
    \E i \in DOMAIN stream :
        /\ stream[i].kind = "DrawAlphaTiles"
        /\ \E n \in DOMAIN stream[i].tiles :
              /\ stream[i].tiles[n].tested_at = k
              /\ stream[i].tiles[n].tile_position = coords

EmittedSolidTile(k, coords) ==
    \E i \in DOMAIN stream :
        /\ stream[i].kind = "DrawSolidTiles" /\ stream[i].effects = "none"
        /\ \E n \in DOMAIN stream[i].tiles :
              /\ stream[i].tiles[n].recorded_at = k - 1
              /\ stream[i].tiles[n].coords = coords

\* C26: going through a DrawRenderTarget item, Pass A leaves its Z-buffers and its
\* index stack as they are and adds one to current_depth; and in the stream of a
\* build() that returns, an alpha tile or a solid tile of a visited path is
\* missing only where a later path of the same layer has a solid tile.
C26_RenderTargetWritesNoDepth ==
    TilingOver =>
       /\ \A i \in DOMAIN scene.display_list :
             (scene.display_list[i].type = "DrawRenderTarget" /\ ~PassAOver(i - 1).panicked) =>
                /\ PassAOver(i).z_buffers = PassAOver(i - 1).z_buffers
                /\ PassAOver(i).stack = PassAOver(i - 1).stack
                /\ PassAOver(i).depth = PassAOver(i - 1).depth + 1
                /\ ~PassAOver(i).panicked
       /\ pc = "done" =>
             \A k \in DOMAIN Entities :
                Entities[k].is_path =>
                   /\ \A n \in DOMAIN draw_workers[Entities[k].path].ob.alpha_tiles :
                         LET coords == draw_workers[Entities[k].path].ob.alpha_tiles[n].tile_position
                         IN  EmittedAlphaTile(k, coords) \/ PathCoversLater(k, coords)
                   /\ \A coords \in SolidCoordsOf({Entities[k].path}) :
                         EmittedSolidTile(k, coords) \/ PathCoversLater(k, coords)

\* A build has returned that drew a path with an alpha tile, or with a solid tile,
\* and two render targets after it in the same layer.
C26_Witness ==
    /\ pc = "done"
    /\ \E k \in DOMAIN Entities :
          /\ Entities[k].is_path
          /\ k + 2 \in DOMAIN Entities
          /\ ~Entities[k + 1].is_path /\ ~Entities[k + 2].is_path
          /\ Entities[k + 2].layer = Entities[k].layer
          /\ draw_workers[Entities[k].path].ob.alpha_tiles # << >>

(***************************************************************************)
(* Culled fills.                                                           *)
(***************************************************************************)
\* The add_fill call that worker i makes next.
NextRequest(i) == scene.paths[i].outline.fill_requests[draw_workers[i].pos + 1]

\* The call is one that add_fill culls: its tile is outside the tile map, or its
\* x coordinates are equal in 4.8 fixed point.
IsCulled(request) ==
    \/ request.tile_coords \notin ViewTiles
    \/ FixedPoint(request, 1) = FixedPoint(request, 3)

\* C27: an add_fill call with tile coordinates outside the tile map, or with a
\* segment whose from_x and to_x are equal once quantized, pushes no fill, leaves
\* every alpha_tile_index of the tile map as it is and does not advance
\* next_alpha_tile_index.
C27_CulledFillChangesNothing ==
    [][ \A i \in DrawIds :
          (/\ draw_workers[i].pos < Len(scene.paths[i].outline.fill_requests)
           /\ draw_workers'[i].pos = draw_workers[i].pos + 1
           /\ IsCulled(NextRequest(i))) =>
             /\ draw_workers'[i].ob = draw_workers[i].ob
             /\ next_alpha_tile_index' = next_alpha_tile_index
             /\ alpha_claims' = alpha_claims
      ]_vars

\* A path's second add_fill call was a degenerate one on the tile of its first
\* fill, which holds an alpha slot.
C27_Witness ==
    \E i \in DrawIds :
        /\ draw_workers[i].pos = 2
        /\ Len(draw_workers[i].ob.fills) = 1
        /\ LET request == scene.paths[i].outline.fill_requests[2]
           IN  /\ request.tile_coords = draw_workers[i].ob.fills[1].tile_coords
               /\ FixedPoint(request, 1) = FixedPoint(request, 3)
               /\ draw_workers[i].ob.tiles[request.tile_coords].alpha_tile_index
                     = draw_workers[i].ob.fills[1].alpha_tile_index

(***************************************************************************)
(* The Tiler's calls.                                                      *)
(***************************************************************************)
TilerCalls(i, op) ==
    { n \in DOMAIN draw_workers[i].tiler_calls : draw_workers[i].tiler_calls[n].op = op }

\* The add_active_fill call of task 0 is in its loop.
ActiveFillRunning == draw_workers[0].active.running

\* What is claimed of the add_fill calls of one add_active_fill call: all with the
\* tile of the call and one horizontal segment at the tile's top y, from left to
\* right for a negative winding and from right to left for a positive one; as
\* many as the winding has gone toward zero; and once the call has returned,
\* |winding| of them, with no fill or |winding| fills pushed.
ActiveFillCallsAsClaimed(i, n) ==
    LET call    == draw_workers[i].tiler_calls[n]
        top     == Px(TILE_WIDTH * call.tile_coords[2])
        running == draw_workers[i].active.running
        left_to_go == IF running THEN Abs(draw_workers[i].active.winding) ELSE 0
    IN  /\ \A k \in DOMAIN call.add_fills :
              /\ call.add_fills[k].tile_coords = call.tile_coords
              /\ call.winding < 0 =>
                    call.add_fills[k].segment = << call.left, top, call.right, top >>
              /\ call.winding > 0 =>
                    call.add_fills[k].segment = << call.right, top, call.left, top >>
        /\ Len(call.add_fills) + left_to_go = Abs(call.winding)
        /\ ~running =>
              Len(draw_workers[i].ob.fills) - call.fills_before \in {0, Abs(call.winding)}

\* C28: add_active_fill returns for every winding, having called add_fill exactly
\* |winding| times (never when the winding is 0) with one and the same horizontal
\* segment at the tile's top y, left to right when winding < 0 and right to left
\* when winding > 0; it has then pushed no fill or |winding| fills.
C28_ActiveFill ==
    /\ [](\A i \in DrawIds : \A n \in TilerCalls(i, "add_active_fill") :
             ActiveFillCallsAsClaimed(i, n))
    /\ (ActiveFillRunning ~> ~ActiveFillRunning)

\* An add_active_fill call of winding -MaxWinding has returned with its fills
\* pushed.
C28_Witness ==
    \E i \in DrawIds : \E n \in TilerCalls(i, "add_active_fill") :
        /\ ~draw_workers[i].active.running
        /\ draw_workers[i].tiler_calls[n].winding = -MaxWinding
        /\ Len(draw_workers[i].ob.fills) = MaxWinding

\* The order of the x coordinates of a segment's endpoints.
EndpointOrder(segment) ==
    IF segment[1] < segment[3] THEN "left to right"
    ELSE IF segment[1] > segment[3] THEN "right to left"
    ELSE "vertical"

\* What is claimed of the add_fill calls of one generate_fill_primitives_for_line
\* call on a segment of x-extent [L, R]: one per tile column c with
\* floor(L / T) <= c < ceil(R / T), in increasing c, on tile (c, tile_y), with a
\* sub-segment inside column c whose endpoints are ordered as the segment's.
LineCallsAsClaimed(i, n) ==
    LET call  == draw_workers[i].tiler_calls[n]
        L     == Min(call.segment[1], call.segment[3])
        R     == Max(call.segment[1], call.segment[3])
        first == L \div Px(TILE_WIDTH)
        end   == -((-R) \div Px(TILE_WIDTH))
    IN  /\ Len(call.add_fills) = Max(end - first, 0)
        /\ \A k \in DOMAIN call.add_fills :
              LET c   == first + k - 1
                  sub == call.add_fills[k].segment
              IN  /\ call.add_fills[k].tile_coords = << c, call.tile_y >>
                  /\ Min(sub[1], sub[3]) >= Px(TILE_WIDTH * c)
                  /\ Max(sub[1], sub[3]) <= Px(TILE_WIDTH * (c + 1))
                  /\ EndpointOrder(sub) = EndpointOrder(call.segment)

\* C29: generate_fill_primitives_for_line calls add_fill exactly once for each
\* tile column that the x-extent [L, R] of its segment meets, from floor(L / T) to
\* ceil(R / T) - 1 in increasing order, with the tile (c, tile_y) and the part of
\* the segment that lies in column c, its endpoints in the order of the segment's;
\* L and R may be negative.
C29_LineSplit ==
    \A i \in DrawIds : \A n \in TilerCalls(i, "generate_fill_primitives_for_line") :
        LineCallsAsClaimed(i, n)

\* A call on a right-to-left segment that spans three tile columns has returned.
C29_Witness ==
    \E i \in DrawIds : \E n \in TilerCalls(i, "generate_fill_primitives_for_line") :
        /\ EndpointOrder(draw_workers[i].tiler_calls[n].segment) = "right to left"
        /\ Len(draw_workers[i].tiler_calls[n].add_fills) = 3

(***************************************************************************)
(* The two build_vector phases.                                            *)
(***************************************************************************)
\* The task of draw path i has started tiling.
DrawTilingStarted(i) == draw_workers[i] # NewWorker(scene.paths[i].fill_rule)

\* The task of clip path i has returned its BuiltPath, tiles classified and
\* AddFills sent.
ClipPathBuilt(i) ==
    /\ clip_workers[i].done
    /\ clip_workers[i].classified
    /\ clip_workers[i].pos = Len(scene.clip_paths[i].outline.fill_requests)
    /\ Cardinality(AddFillsFrom(<<"clip", i>>)) = 1

\* C30: under every interleaving, when the tiling of any draw path has started
\* every clip path is fully built and its AddFills sent; so the clip path of a
\* draw path is a completed BuiltPath whenever the draw path is tiled, and every
\* AddFills of a clip path precedes every AddFills of a draw path in the stream.
C30_PhasesDoNotOverlap ==
    /\ \A i \in DrawIds :
          DrawTilingStarted(i) =>
             /\ \A c \in ClipIds : ClipPathBuilt(c)
             /\ scene.paths[i].clip_path # NoClip =>
                   /\ scene.paths[i].clip_path \in ClipIds
                   /\ ClipPathBuilt(scene.paths[i].clip_path)
    /\ \A a, b \in DOMAIN stream :
          (/\ stream[a].kind = "AddFills" /\ stream[a].from[1] = "clip"
           /\ stream[b].kind = "AddFills" /\ stream[b].from[1] = "draw") => a < b

\* A draw path with a clip path that has fills has been tiled and its AddFills
\* sent.
C30_Witness ==
    \E i \in DrawIds :
        /\ scene.paths[i].clip_path # NoClip
        /\ draw_workers[i].done
        /\ clip_workers[scene.paths[i].clip_path].ob.fills # << >>
        /\ draw_workers[i].ob.fills # << >>

====
